---- MODULE Spec2Model ----
(***************************************************************************)
(* Authoritative game engine of the four-player team domino server:        *)
(* rooms (games map), seats, hands, board, open ends, turn pointer, pass   *)
(* counter, phase, winner, scores, the pending AI-turn timers, the device   *)
(* sessions kept for reconnection, and the socket connections that have    *)
(* closed.                                                                 *)
(***************************************************************************)
EXTENDS Integers, Sequences, FiniteSets, TLC

VARIABLES games, timers, closed, deviceSessions, learningAIs

vars == <<games, timers, closed, deviceSessions, learningAIs>>

(***************************************************************************)
(* Program constants                                                       *)
(***************************************************************************)
MaxPip == 6

HandSize == 7

NumSeats == 4

TeamCap == 2

BlockedPasses == 4

EmptyEnd == -1

AIBase == 100

Teams == {"team1", "team2"}

Sides == {"left", "right"}

(***************************************************************************)
(* Bounds of the exploration                                               *)
(***************************************************************************)
\* socket connections that send intents
NumSockets == 2

\* outcomes of shuffle() that a deal may draw (rows of ShuffleTable)
NumDeals == 1

\* placements of a round during which the acting seat may choose any legal
\* move, while no points have been scored in the room; afterwards, and in
\* the rounds of a room that has scored, it takes the first legal move of
\* its hand
FreeMoves == 1

\* cumulative points up to which a rematch is explored
MaxScore == 8

\* passes are explored while a room's passCount is below MaxPasses
MaxPasses == 5

\* browsers (device ids) the connections come from
NumDevices == 1

\* placements explored in each of two rooms played side by side
TwoRoomMoves == 3

\* decisions the AI seats of a room have recorded when a round is last dealt
MaxTrail == 12

Sockets == 1..NumSockets

\* the deviceIds clients send with their intents: the client sends the id
\* of its browser, which all its connections share
DeviceIds == 1..NumDevices

\* an absent deviceId
NoDevice == 0

RoomCodes == {"A"}

(***************************************************************************)
(* Generic helpers                                                         *)
(***************************************************************************)
Min(a, b) == IF a <= b THEN a ELSE b

Range(s) == {s[i] : i \in 1..Len(s)}

\* Array.prototype.slice(from, to) with 0-based bounds
Slice(s, from, to) == SubSeq(s, from + 1, Min(to, Len(s)))

\* Array.prototype.findIndex over the sequence of the test's results:
\* 0-based index of the first match, or -1
FindIndex(hits) ==
  IF \E i \in 1..Len(hits) : hits[i]
  THEN (CHOOSE i \in 1..Len(hits) : hits[i] /\ \A j \in 1..(i - 1) : ~hits[j]) - 1
  ELSE -1

\* Array.prototype.splice(index, 1) with a 0-based index; a negative index
\* counts from the end, so splice(-1, 1) removes the last element
RemoveAt(s, index) ==
  LET start == IF index < 0 THEN (IF Len(s) + index < 0 THEN 0 ELSE Len(s) + index)
               ELSE index
  IN  IF start >= Len(s) THEN s
      ELSE [i \in 1..(Len(s) - 1) |-> IF i <= start THEN s[i] ELSE s[i + 1]]

RECURSIVE SumSeq(_)
SumSeq(s) == IF s = <<>> THEN 0 ELSE Head(s) + SumSeq(Tail(s))

(***************************************************************************)
(* Tiles, deck, legality oracle, hand score (lib/gameTypes)                *)
(***************************************************************************)
RowOf(i) == [k \in 1..(MaxPip - i + 1) |-> [left |-> i, right |-> i + k - 1]]

RECURSIVE RowsFrom(_)
RowsFrom(i) == IF i > MaxPip THEN <<>> ELSE RowOf(i) \o RowsFrom(i + 1)

generateDominoes ==
  LET pairs == RowsFrom(0)
  IN  [n \in 1..Len(pairs) |->
         [id |-> n - 1, left |-> pairs[n].left, right |-> pairs[n].right]]

DeckSize == Len(generateDominoes)

\* canPlayDomino matching the tile's left value only
canPlayDominoLeftValueOnly(domino, leftEnd, rightEnd, boardEmpty) ==
  IF boardEmpty
  THEN [canPlay |-> TRUE, sides |-> <<"left", "right">>]
  ELSE LET l == IF domino.left = leftEnd THEN <<"left">> ELSE <<>>
           r == IF domino.left = rightEnd THEN <<"right">> ELSE <<>>
       IN  [canPlay |-> Len(l \o r) > 0, sides |-> l \o r]

canPlayDomino(domino, leftEnd, rightEnd, boardEmpty) ==
  IF boardEmpty
  THEN [canPlay |-> TRUE, sides |-> <<"left", "right">>]
  ELSE LET l == IF domino.left = leftEnd \/ domino.right = leftEnd
                THEN <<"left">> ELSE <<>>
           r == IF domino.left = rightEnd \/ domino.right = rightEnd
                THEN <<"right">> ELSE <<>>
       IN  [canPlay |-> Len(l \o r) > 0, sides |-> l \o r]

calculateHandScore(hand) ==
  SumSeq([i \in 1..Len(hand) |-> hand[i].left + hand[i].right])

(***************************************************************************)
(* Room state (createGame) and the round helpers of server.ts              *)
(***************************************************************************)
createGame ==
  [players |-> <<>>, board |-> <<>>,
   boardLeftEnd |-> EmptyEnd, boardRightEnd |-> EmptyEnd,
   currentPlayerIndex |-> 0, gamePhase |-> "waiting", winner |-> "null",
   passCount |-> 0, scores |-> [team1 |-> 0, team2 |-> 0],
   lastWinner |-> "null"]

\* the Player literal of joinGame / createAIGame
humanPlayer(socketId, team) ==
  [id |-> socketId, team |-> team, hand |-> <<>>, isConnected |-> TRUE,
   isAI |-> FALSE]

createAIPlayer(aiId, team) ==
  [id |-> aiId, team |-> team, hand |-> <<>>, isConnected |-> TRUE,
   isAI |-> TRUE]

\* game.players[i] with the code's 0-based index
PlayerAt(game, index) == game.players[index + 1]

TeamCount(players, team) ==
  Cardinality({i \in 1..Len(players) : players[i].team = team})

\* dealDominoes dealing with a stride one short of the hand size
dealDominoesOverlapping(game, shuffled) ==
  [game EXCEPT !.players =
     [i \in 1..Len(game.players) |->
        [game.players[i] EXCEPT
           !.hand = Slice(shuffled, (i - 1) * (HandSize - 1),
                          (i - 1) * (HandSize - 1) + HandSize)]]]

dealDominoes(game, shuffled) ==
  [game EXCEPT !.players =
     [i \in 1..Len(game.players) |->
        [game.players[i] EXCEPT
           !.hand = Slice(shuffled, (i - 1) * HandSize, i * HandSize)]]]

\* resetRound leaving the board and its ends as they are
resetRoundKeepsBoard(game) ==
  [game EXCEPT !.lastWinner = game.winner,
               !.passCount = 0,
               !.winner = "null",
               !.players = [i \in 1..Len(game.players) |->
                              [game.players[i] EXCEPT !.hand = <<>>]]]

\* the reset that leaves the winner of the last round in place
resetRoundKeepsWinner(game) ==
  [game EXCEPT !.lastWinner = game.winner,
               !.board = <<>>,
               !.boardLeftEnd = EmptyEnd,
               !.boardRightEnd = EmptyEnd,
               !.passCount = 0,
               !.players = [i \in 1..Len(game.players) |->
                              [game.players[i] EXCEPT !.hand = <<>>]]]

resetRound(game) ==
  [game EXCEPT !.lastWinner = game.winner,
               !.board = <<>>,
               !.boardLeftEnd = EmptyEnd,
               !.boardRightEnd = EmptyEnd,
               !.passCount = 0,
               !.winner = "null",
               !.players = [i \in 1..Len(game.players) |->
                              [game.players[i] EXCEPT !.hand = <<>>]]]

HasDouble(hand, double) ==
  \E k \in 1..Len(hand) : hand[k].left = double /\ hand[k].right = double

\* the double of highest value held by any seat, or -1
HighestDouble(game) ==
  LET held == {d \in 0..MaxPip :
                 \E i \in 1..Len(game.players) : HasDouble(game.players[i].hand, d)}
  IN  IF held = {} THEN -1 ELSE CHOOSE d \in held : \A e \in held : e <= d

\* findStartingPlayer scanning the doubles from 0 upwards
findStartingPlayerLowestDouble(game) ==
  LET held == {d \in 0..MaxPip :
                 \E i \in 1..Len(game.players) : HasDouble(game.players[i].hand, d)}
      d == IF held = {} THEN -1 ELSE CHOOSE d \in held : \A e \in held : d <= e
  IN  IF d = -1 THEN 0
      ELSE FindIndex([i \in 1..Len(game.players) |->
                        HasDouble(game.players[i].hand, d)])

findStartingPlayer(game) ==
  LET d == HighestDouble(game)
  IN  IF d = -1 THEN 0
      ELSE FindIndex([i \in 1..Len(game.players) |->
                        HasDouble(game.players[i].hand, d)])

\* getNextPlayerIndex rotating the other way round the table
getNextPlayerIndexBackwards(game) ==
  (game.currentPlayerIndex + NumSeats - 1) % NumSeats

getNextPlayerIndex(game) == (game.currentPlayerIndex + 1) % NumSeats

getNewEnds(boardEmpty, leftEnd, rightEnd, domino, side) ==
  IF boardEmpty THEN [left |-> domino.left, right |-> domino.right]
  ELSE IF side = "left"
  THEN [left |-> IF domino.right = leftEnd THEN domino.left ELSE domino.right,
        right |-> rightEnd]
  ELSE [left |-> leftEnd,
        right |-> IF domino.left = rightEnd THEN domino.right ELSE domino.left]

\* index of the seat bound to identity id, as findIndex((p) => p.id === id)
IndexOfId(game, id) ==
  FindIndex([i \in 1..Len(game.players) |-> game.players[i].id = id])

OtherTeam(team) == IF team = "team1" THEN "team2" ELSE "team1"

AddScore(scores, team, points) ==
  IF team = "team1"
  THEN [team1 |-> scores.team1 + points, team2 |-> scores.team2]
  ELSE [team1 |-> scores.team1, team2 |-> scores.team2 + points]

\* the emptied-hand branch counting every hand but the winner's own
emptiedHandCountsPartner(game) ==
  LET currentPlayer == PlayerAt(game, game.currentPlayerIndex)
      others == SelectSeq(game.players, LAMBDA p : p.id # currentPlayer.id)
      winningPoints ==
        SumSeq([i \in 1..Len(others) |-> calculateHandScore(others[i].hand)])
  IN  [game EXCEPT !.gamePhase = "finished",
                   !.winner = currentPlayer.team,
                   !.scores = AddScore(game.scores, currentPlayer.team,
                                       winningPoints)]

\* the emptied-hand branch that scores the round and leaves the phase
emptiedHandStaysInPlay(game) ==
  LET currentPlayer == PlayerAt(game, game.currentPlayerIndex)
      opponents == SelectSeq(game.players,
                             LAMBDA p : p.team # currentPlayer.team)
      winningPoints ==
        SumSeq([i \in 1..Len(opponents) |-> calculateHandScore(opponents[i].hand)])
  IN  [game EXCEPT !.winner = currentPlayer.team,
                   !.scores = AddScore(game.scores, currentPlayer.team,
                                       winningPoints)]

\* checkGameOver, first branch: the current seat has no dominoes
emptiedHand(game) ==
  LET currentPlayer == PlayerAt(game, game.currentPlayerIndex)
      opponents == SelectSeq(game.players,
                             LAMBDA p : p.team # currentPlayer.team)
      winningPoints ==
        SumSeq([i \in 1..Len(opponents) |-> calculateHandScore(opponents[i].hand)])
  IN  [game EXCEPT !.gamePhase = "finished",
                   !.winner = currentPlayer.team,
                   !.scores = AddScore(game.scores, currentPlayer.team,
                                       winningPoints)]

\* the blocked branch giving a tie at the minimum to the first seat's team
blockedTieToFirstSeat(game) ==
  LET playerTotals == [i \in 1..Len(game.players) |->
                         [id |-> game.players[i].id,
                          team |-> game.players[i].team,
                          total |-> calculateHandScore(game.players[i].hand)]]
      minTotal == CHOOSE m \in {playerTotals[i].total : i \in 1..Len(playerTotals)} :
                    \A i \in 1..Len(playerTotals) : m <= playerTotals[i].total
      minPlayers == SelectSeq(playerTotals, LAMBDA p : p.total = minTotal)
      winner == minPlayers[1].team
      winnerPlayerId == minPlayers[1].id
      others == SelectSeq(playerTotals, LAMBDA p : p.id # winnerPlayerId)
      winningPoints == SumSeq([i \in 1..Len(others) |-> others[i].total])
  IN  [game EXCEPT !.gamePhase = "finished",
                   !.winner = winner,
                   !.scores = AddScore(game.scores, winner, winningPoints)]

\* the blocked branch counting the hands of the losing team only
blockedCountsOpponentsOnly(game) ==
  LET playerTotals == [i \in 1..Len(game.players) |->
                         [id |-> game.players[i].id,
                          team |-> game.players[i].team,
                          total |-> calculateHandScore(game.players[i].hand)]]
      minTotal == CHOOSE m \in {playerTotals[i].total : i \in 1..Len(playerTotals)} :
                    \A i \in 1..Len(playerTotals) : m <= playerTotals[i].total
      minPlayers == SelectSeq(playerTotals, LAMBDA p : p.total = minTotal)
      teams == {minPlayers[i].team : i \in 1..Len(minPlayers)}
      winner == IF Len(minPlayers) > 1
                THEN (IF Cardinality(teams) = 1 THEN minPlayers[1].team ELSE "draw")
                ELSE minPlayers[1].team
      others == SelectSeq(playerTotals, LAMBDA p : p.team # winner)
      winningPoints == SumSeq([i \in 1..Len(others) |-> others[i].total])
  IN  [game EXCEPT !.gamePhase = "finished",
                   !.winner = winner,
                   !.scores = IF winner = "draw" THEN game.scores
                              ELSE AddScore(game.scores, winner, winningPoints)]

\* checkGameOver, second branch: all players passed
blocked(game) ==
  LET playerTotals == [i \in 1..Len(game.players) |->
                         [id |-> game.players[i].id,
                          team |-> game.players[i].team,
                          total |-> calculateHandScore(game.players[i].hand)]]
      minTotal == CHOOSE m \in {playerTotals[i].total : i \in 1..Len(playerTotals)} :
                    \A i \in 1..Len(playerTotals) : m <= playerTotals[i].total
      minPlayers == SelectSeq(playerTotals, LAMBDA p : p.total = minTotal)
      teams == {minPlayers[i].team : i \in 1..Len(minPlayers)}
      winner == IF Len(minPlayers) > 1
                THEN (IF Cardinality(teams) = 1 THEN minPlayers[1].team ELSE "draw")
                ELSE minPlayers[1].team
      winnerPlayerId == minPlayers[1].id
      others == SelectSeq(playerTotals, LAMBDA p : p.id # winnerPlayerId)
      winningPoints == SumSeq([i \in 1..Len(others) |-> others[i].total])
  IN  [game EXCEPT !.gamePhase = "finished",
                   !.winner = winner,
                   !.scores = IF winner = "draw" THEN game.scores
                              ELSE AddScore(game.scores, winner, winningPoints)]

\* checkGameOver: the room after the check and the value it returns
checkGameOver(game) ==
  IF Len(PlayerAt(game, game.currentPlayerIndex).hand) = 0
  THEN [game |-> emptiedHand(game), over |-> TRUE]
  ELSE IF game.passCount >= BlockedPasses
  THEN [game |-> blocked(game), over |-> TRUE]
  ELSE [game |-> game, over |-> FALSE]

\* the flip that leaves the tile as it is
flipKeepsOrientation(domino) ==
  [id |-> domino.id, left |-> domino.left, right |-> domino.right]

flip(domino) ==
  [id |-> domino.id, left |-> domino.right, right |-> domino.left]

\* the human placement leaving passCount as it is
placeDominoKeepsPassCount(game, playerIndex, dominoIndex, side) ==
  LET player == PlayerAt(game, playerIndex)
      domino == player.hand[dominoIndex + 1]
      turned == IF Len(game.board) = 0 THEN domino
                ELSE IF side = "left"
                THEN (IF domino.right = game.boardLeftEnd THEN domino
                      ELSE flip(domino))
                ELSE (IF domino.left = game.boardRightEnd THEN domino
                      ELSE flip(domino))
      spliced == [game EXCEPT !.players[playerIndex + 1].hand =
                                 RemoveAt(player.hand, dominoIndex)]
  IN  IF Len(game.board) = 0
      THEN [spliced EXCEPT !.board = <<turned>>,
                           !.boardLeftEnd = turned.left,
                           !.boardRightEnd = turned.right]
      ELSE IF side = "left"
      THEN [spliced EXCEPT !.board = <<turned>> \o game.board,
                           !.boardLeftEnd = turned.left]
      ELSE [spliced EXCEPT !.board = Append(game.board, turned),
                           !.boardRightEnd = turned.right]

\* playDomino handler: remove the domino from the hand and add it to the board
placeDomino(game, playerIndex, dominoIndex, side) ==
  LET player == PlayerAt(game, playerIndex)
      domino == player.hand[dominoIndex + 1]
      boardEmpty == Len(game.board) = 0
      spliced == [game EXCEPT !.players[playerIndex + 1].hand =
                                 RemoveAt(player.hand, dominoIndex)]
      onBoard ==
        IF boardEmpty
        THEN [spliced EXCEPT !.board = Append(game.board, domino),
                             !.boardLeftEnd = domino.left,
                             !.boardRightEnd = domino.right]
        ELSE IF side = "left"
        THEN (IF domino.right = game.boardLeftEnd
              THEN [spliced EXCEPT !.board = <<domino>> \o game.board,
                                   !.boardLeftEnd = domino.left]
              ELSE [spliced EXCEPT !.board = <<flip(domino)>> \o game.board,
                                   !.boardLeftEnd = flip(domino).left])
        ELSE (IF domino.left = game.boardRightEnd
              THEN [spliced EXCEPT !.board = Append(game.board, domino),
                                   !.boardRightEnd = domino.right]
              ELSE [spliced EXCEPT !.board = Append(game.board, flip(domino)),
                                   !.boardRightEnd = flip(domino).right])
  IN  [onBoard EXCEPT !.passCount = 0]

\* the AI placement that lays the tile as it lies in the hand
aiPlaceDominoAsHeld(game, playerIndex, domino, side) ==
  LET currentPlayer == PlayerAt(game, playerIndex)
      dominoIndex == FindIndex([k \in 1..Len(currentPlayer.hand) |->
                                  currentPlayer.hand[k].id = domino.id])
      spliced == [game EXCEPT !.players[playerIndex + 1].hand =
                                 RemoveAt(currentPlayer.hand, dominoIndex)]
      onBoard ==
        IF Len(game.board) = 0
        THEN [spliced EXCEPT !.board = Append(game.board, domino),
                             !.boardLeftEnd = domino.left,
                             !.boardRightEnd = domino.right]
        ELSE IF side = "left"
        THEN [spliced EXCEPT !.board = <<domino>> \o game.board,
                             !.boardLeftEnd = domino.left]
        ELSE [spliced EXCEPT !.board = Append(game.board, domino),
                             !.boardRightEnd = domino.right]
  IN  [onBoard EXCEPT !.passCount = 0]

\* processAITurn callback: the same placement for the captured AI player,
\* whose domino is looked up by id
aiPlaceDomino(game, playerIndex, domino, side) ==
  LET currentPlayer == PlayerAt(game, playerIndex)
      dominoIndex == FindIndex([k \in 1..Len(currentPlayer.hand) |->
                                  currentPlayer.hand[k].id = domino.id])
      boardEmpty == Len(game.board) = 0
      spliced == [game EXCEPT !.players[playerIndex + 1].hand =
                                 RemoveAt(currentPlayer.hand, dominoIndex)]
      onBoard ==
        IF boardEmpty
        THEN [spliced EXCEPT !.board = Append(game.board, domino),
                             !.boardLeftEnd = domino.left,
                             !.boardRightEnd = domino.right]
        ELSE IF side = "left"
        THEN (IF domino.right = game.boardLeftEnd
              THEN [spliced EXCEPT !.board = <<domino>> \o game.board,
                                   !.boardLeftEnd = domino.left]
              ELSE [spliced EXCEPT !.board = <<flip(domino)>> \o game.board,
                                   !.boardLeftEnd = flip(domino).left])
        ELSE (IF domino.left = game.boardRightEnd
              THEN [spliced EXCEPT !.board = Append(game.board, domino),
                                   !.boardRightEnd = domino.right]
              ELSE [spliced EXCEPT !.board = Append(game.board, flip(domino)),
                                   !.boardRightEnd = flip(domino).right])
  IN  [onBoard EXCEPT !.passCount = 0]

\* a turn advance that hands the turn to the partner
advanceTurnToPartner(game) ==
  [game EXCEPT !.currentPlayerIndex =
     (game.currentPlayerIndex + 2) % Len(game.players)]

\* the turn advance that follows a check that did not end the round
advanceTurn(game) ==
  [game EXCEPT !.currentPlayerIndex = getNextPlayerIndex(game)]

\* the tail that hands the turn on after the check has ended the round too
afterActionHandsOn(game) ==
  LET chk == checkGameOver(game)
  IN  advanceTurn(chk.game)

afterAction(game) ==
  LET chk == checkGameOver(game)
  IN  IF ~chk.over THEN advanceTurn(chk.game) ELSE chk.game

getPlayableDominoes(hand, leftEnd, rightEnd, boardEmpty) ==
  LET verdict(d) == canPlayDomino(d, leftEnd, rightEnd, boardEmpty)
      playable == SelectSeq(hand, LAMBDA d : verdict(d).canPlay)
  IN  [k \in 1..Len(playable) |->
         [domino |-> playable[k], sides |-> verdict(playable[k]).sides]]

\* the (domino, side) pairs of a playable list, in enumeration order
RECURSIVE MoveOptions(_)
MoveOptions(playable) ==
  IF playable = <<>> THEN <<>>
  ELSE [k \in 1..Len(Head(playable).sides) |->
          [domino |-> Head(playable).domino, side |-> Head(playable).sides[k]]]
       \o MoveOptions(Tail(playable))

\* estimateOpponentHands: the tiles that are not on the board, in the hand of
\* the player or in the hand of the first team mate with another identity
unknownTiles(game, player) ==
  LET mates == SelectSeq(game.players,
                         LAMBDA p : p.team = player.team /\ p.id # player.id)
      knownIds == {d.id : d \in Range(game.board)}
                    \cup {d.id : d \in Range(player.hand)}
                    \cup (IF mates = <<>> THEN {}
                          ELSE {d.id : d \in Range(mates[1].hand)})
  IN  SelectSeq(generateDominoes, LAMBDA tile : tile.id \notin knownIds)

\* outcomes of shuffle(unknown) that a hypothesis may draw
UnknownOrders(unknown) ==
  {unknown, [i \in 1..Len(unknown) |-> unknown[Len(unknown) + 1 - i]]}

\* one run of the for loop of estimateOpponentHands from opponent k on
RECURSIVE dealPass(_, _, _, _)
dealPass(opponents, k, shuffled, st) ==
  IF k > Len(opponents) THEN st
  ELSE LET id == opponents[k].id
           next == IF st.sizes[id] > 0 /\ st.idx < Len(shuffled)
                   THEN [idx |-> st.idx + 1,
                         sizes |-> [st.sizes EXCEPT ![id] = @ - 1],
                         estimated |-> [st.estimated EXCEPT
                                          ![id] = Append(@, shuffled[st.idx + 1])]]
                   ELSE st
       IN  IF next.idx >= Len(shuffled) THEN next
           ELSE dealPass(opponents, k + 1, shuffled, next)

\* the while loop of estimateOpponentHands; a run of the for loop that
\* changes nothing is repeated for ever
RECURSIVE dealLoop(_, _, _)
dealLoop(opponents, shuffled, st) ==
  IF st.idx >= Len(shuffled)
  THEN [terminates |-> TRUE, estimated |-> st.estimated]
  ELSE LET next == dealPass(opponents, 1, shuffled, st)
       IN  IF opponents = <<>>
           THEN [terminates |-> TRUE, estimated |-> next.estimated]
           ELSE IF next = st
           THEN [terminates |-> FALSE, estimated |-> st.estimated]
           ELSE dealLoop(opponents, shuffled, next)

\* estimateOpponentHands with `shuffled` the outcome of shuffle(unknown);
\* sizes and estimated are Maps keyed by the identity of an opponent
estimateOpponentHands(game, player, shuffled) ==
  LET opponents == SelectSeq(game.players, LAMBDA p : p.team # player.team)
      ids == {opponents[k].id : k \in 1..Len(opponents)}
      last(id) == CHOOSE k \in 1..Len(opponents) :
                    /\ opponents[k].id = id
                    /\ \A j \in (k + 1)..Len(opponents) : opponents[j].id # id
  IN  dealLoop(opponents, shuffled,
               [idx |-> 0,
                sizes |-> [id \in ids |-> Len(opponents[last(id)].hand)],
                estimated |-> [id \in ids |-> <<>>]])

\* chooseMove returns: its call of estimateOpponentHands comes to an end
chooseMoveReturns(game, player) ==
  estimateOpponentHands(game, player, unknownTiles(game, player)).terminates

\* chooseMove offering both sides of every playable domino
chooseMoveAnySide(game, player) ==
  LET playable == getPlayableDominoes(player.hand, game.boardLeftEnd,
                                      game.boardRightEnd, Len(game.board) = 0)
  IN  MoveOptions([k \in 1..Len(playable) |->
                     [domino |-> playable[k].domino, sides |-> <<"left", "right">>]])

\* LearningAI.chooseMove: the moves it can return, in enumeration order; with
\* a single playable domino its first side, otherwise (random exploration, or
\* the argmax over scores that depend on a random opponent-hand hypothesis)
\* any legal pair
chooseMove(game, player) ==
  LET playable == getPlayableDominoes(player.hand, game.boardLeftEnd,
                                      game.boardRightEnd, Len(game.board) = 0)
  IN  IF Len(playable) = 0 THEN <<>>
      ELSE IF Len(playable) = 1
      THEN <<[domino |-> playable[1].domino, side |-> playable[1].sides[1]]>>
      ELSE MoveOptions(playable)

\* aiSelectMove: every AI player has a LearningAI, which decides
aiSelectMove(game, player) ==
  LET playable == getPlayableDominoes(player.hand, game.boardLeftEnd,
                                      game.boardRightEnd, Len(game.board) = 0)
  IN  IF Len(playable) = 0 THEN <<>> ELSE chooseMove(game, player)

\* processAITurn up to setTimeout: the timers it schedules for room g
processAITurn(g, game) ==
  LET currentPlayer == PlayerAt(game, game.currentPlayerIndex)
  IN  IF ~currentPlayer.isAI \/ game.gamePhase # "playing" THEN <<>>
      ELSE <<[game |-> g, player |-> currentPlayer.id]>>

\* the tail of the playDomino and pass handlers
triggerAI(g, game) ==
  IF game.gamePhase = "finished" THEN <<>>
  ELSE IF PlayerAt(game, game.currentPlayerIndex).isAI
  THEN processAITurn(g, game)
  ELSE <<>>

(***************************************************************************)
(* Seat ordering: the comparator sort of joinGame and the team interleaving *)
(***************************************************************************)
\* players.filter((p) => p.team === a.team).indexOf(a) for the player at
\* (1-based) position a of players
InTeamIndex(players, a) ==
  Cardinality({i \in 1..(a - 1) : players[i].team = players[a].team})

\* the comparator of joinGame's sort, on positions a and b of game.players
compareSeats(players, a, b) ==
  IF players[a].team = players[b].team THEN 0
  ELSE IF InTeamIndex(players, a) # InTeamIndex(players, b)
  THEN InTeamIndex(players, a) - InTeamIndex(players, b)
  ELSE IF players[a].team = "team1" THEN -1 ELSE 1

\* Array.prototype.sort on a short array (the engine's insertion sort over a
\* work array of the elements; the comparator reads the unsorted
\* game.players): the end of the initial run starting at work[1]
RECURSIVE RunEnd(_, _, _, _)
RunEnd(players, work, idx, descending) ==
  IF idx > Len(work) THEN Len(work)
  ELSE LET order == compareSeats(players, work[idx], work[idx - 1])
       IN  IF (descending /\ order >= 0) \/ (~descending /\ order < 0)
           THEN idx - 1
           ELSE RunEnd(players, work, idx + 1, descending)

Reverse(s) == [i \in 1..Len(s) |-> s[Len(s) + 1 - i]]

countAndMakeRun(players, work) ==
  IF Len(work) < 2 THEN [work |-> work, run |-> Len(work)]
  ELSE LET descending == compareSeats(players, work[2], work[1]) < 0
           run == RunEnd(players, work, 3, descending)
       IN  [work |-> IF descending
                     THEN Reverse(SubSeq(work, 1, run))
                          \o SubSeq(work, run + 1, Len(work))
                     ELSE work,
            run |-> run]

\* binary search of the insertion point of pivot in work[left+1..right]
RECURSIVE InsertionPoint(_, _, _, _, _)
InsertionPoint(players, work, pivot, left, right) ==
  IF left >= right THEN left
  ELSE LET mid == left + ((right - left) \div 2)
       IN  IF compareSeats(players, pivot, work[mid + 1]) < 0
           THEN InsertionPoint(players, work, pivot, left, mid)
           ELSE InsertionPoint(players, work, pivot, mid + 1, right)

RECURSIVE binaryInsertionSort(_, _, _)
binaryInsertionSort(players, work, start) ==
  IF start >= Len(work) THEN work
  ELSE LET pivot == work[start + 1]
           left == InsertionPoint(players, work, pivot, 0, start)
           moved == SubSeq(work, 1, left) \o <<pivot>>
                    \o SubSeq(work, left + 1, start)
                    \o SubSeq(work, start + 2, Len(work))
       IN  binaryInsertionSort(players, moved, start + 1)

sortPlayers(players) ==
  IF Len(players) < 2 THEN players
  ELSE LET made == countAndMakeRun(players, [i \in 1..Len(players) |-> i])
           order == binaryInsertionSort(players, made.work, made.run)
       IN  [i \in 1..Len(players) |-> players[order[i]]]

\* the reorder starting with team2: T2P1, T1P1, T2P2, T1P2
reorderPlayersTeam2First(players) ==
  LET team1Players == SelectSeq(players, LAMBDA p : p.team = "team1")
      team2Players == SelectSeq(players, LAMBDA p : p.team = "team2")
      pick(list, i) == IF Len(list) >= i THEN <<list[i]>> ELSE <<>>
  IN  pick(team2Players, 1) \o pick(team1Players, 1)
      \o pick(team2Players, 2) \o pick(team1Players, 2)

\* Reorder: T1P1, T2P1, T1P2, T2P2
reorderPlayers(players) ==
  LET team1Players == SelectSeq(players, LAMBDA p : p.team = "team1")
      team2Players == SelectSeq(players, LAMBDA p : p.team = "team2")
      pick(list, i) == IF Len(list) >= i THEN <<list[i]>> ELSE <<>>
  IN  pick(team1Players, 1) \o pick(team2Players, 1)
      \o pick(team1Players, 2) \o pick(team2Players, 2)

(***************************************************************************)
(* Intent handlers (socket.on ...) and the AI timer callback.  A handler   *)
(* is a function of the state and the intent: the room map and the pending *)
(* timers it leaves, and the error it emits to the caller ("ok": none).    *)
(***************************************************************************)
Rejected(err) == [games |-> games, timers |-> timers, err |-> err]

\* a handler's outcome written to every room of the map
StoredInEveryRoom(g, game, scheduled, err) ==
  [games |-> [h \in DOMAIN games \cup {g} |-> game],
   timers |-> timers \o scheduled, err |-> err]

\* the outcome of a handler that stored `game` under g and scheduled timers
Stored(g, game, scheduled, err) ==
  [games |-> (g :> game) @@ games, timers |-> timers \o scheduled, err |-> err]

AllPlayers == UNION {Range(games[g].players) : g \in DOMAIN games}

\* uuidv4(): the k-th identity not yet given to an AI player
FreshAIId(k) == AIBase + Cardinality({p \in AllPlayers : p.isAI}) + k

\* joinGame's checks with the phase looked at first
joinErrorPhaseFirst(game, team) ==
  IF game.gamePhase # "waiting" THEN "AlreadyStarted"
  ELSE IF TeamCount(game.players, team) >= TeamCap THEN "TeamFull"
  ELSE IF Len(game.players) >= NumSeats THEN "RoomFull"
  ELSE "ok"

joinError(game, team) ==
  IF TeamCount(game.players, team) >= TeamCap THEN "TeamFull"
  ELSE IF Len(game.players) >= NumSeats THEN "RoomFull"
  ELSE IF game.gamePhase # "waiting" THEN "AlreadyStarted"
  ELSE "ok"

\* joinGame seating the player before its checks
joinGameSeatsBeforeChecks(g, s, team) ==
  LET game == IF g \in DOMAIN games THEN games[g] ELSE createGame
      err == joinError(game, team)
      joined == [game EXCEPT !.players = Append(game.players, humanPlayer(s, team))]
  IN  IF err # "ok" THEN Stored(g, joined, <<>>, err)
      ELSE Stored(g, [joined EXCEPT !.players =
                                      reorderPlayers(sortPlayers(joined.players))],
                  <<>>, "ok")

joinGame(g, s, team) ==
  LET game == IF g \in DOMAIN games THEN games[g] ELSE createGame
      err == joinError(game, team)
      joined == Append(game.players, humanPlayer(s, team))
  IN  IF err # "ok" THEN Stored(g, game, <<>>, err)
      ELSE Stored(g, [game EXCEPT !.players =
                                     reorderPlayers(sortPlayers(joined))],
                  <<>>, "ok")

createAIGame(g, s, team, gameMode) ==
  IF g \in DOMAIN games THEN Rejected("RoomAlreadyExists")
  ELSE LET human == <<humanPlayer(s, team)>>
           bots == IF gameMode = "vs-ai"
                   THEN <<createAIPlayer(FreshAIId(1), team),
                          createAIPlayer(FreshAIId(2), OtherTeam(team)),
                          createAIPlayer(FreshAIId(3), OtherTeam(team))>>
                   ELSE IF gameMode = "with-ai-partner"
                   THEN <<createAIPlayer(FreshAIId(1), team)>>
                   ELSE <<>>
       IN  Stored(g, [createGame EXCEPT !.players = reorderPlayers(human \o bots)],
                  <<>>, "ok")

\* startGame's checks without the look at the phase
startErrorSeatsOnly(g) ==
  IF g \notin DOMAIN games THEN "NotFound"
  ELSE IF Len(games[g].players) # NumSeats THEN "WrongPlayerCount"
  ELSE "ok"

startError(g) ==
  IF g \notin DOMAIN games THEN "NotFound"
  ELSE IF Len(games[g].players) # NumSeats THEN "WrongPlayerCount"
  ELSE IF games[g].gamePhase \notin {"finished", "waiting"} THEN "AlreadyStarted"
  ELSE "ok"

\* startGame after its checks, the opening seat chosen by the doubles alone
startRoundByDoubles(game, shuffled) ==
  LET fresh == IF game.gamePhase = "finished" THEN resetRound(game) ELSE game
      dealt == dealDominoes(fresh, shuffled)
  IN  [dealt EXCEPT !.currentPlayerIndex = findStartingPlayer(dealt),
                    !.lastWinner = "null",
                    !.gamePhase = "playing"]

\* startGame after its checks: reset, deal, choose the opening seat
startRound(game, shuffled) ==
  LET fresh == IF game.gamePhase = "finished" THEN resetRound(game) ELSE game
      dealt == dealDominoes(fresh, shuffled)
      lastWinner == dealt.lastWinner
      firstWinnerIdx == FindIndex([i \in 1..Len(dealt.players) |->
                                     dealt.players[i].team = lastWinner])
      opening == IF lastWinner # "null" /\ lastWinner # "draw"
                 THEN (IF firstWinnerIdx >= 0 THEN firstWinnerIdx
                       ELSE findStartingPlayer(dealt))
                 ELSE findStartingPlayer(dealt)
  IN  [dealt EXCEPT !.currentPlayerIndex = opening,
                    !.lastWinner = "null",
                    !.gamePhase = "playing"]

startGame(g, shuffled) ==
  LET err == startError(g)
      started == startRound(games[g], shuffled)
  IN  IF err # "ok" THEN Rejected(err)
      ELSE Stored(g, started,
                  IF PlayerAt(started, started.currentPlayerIndex).isAI
                  THEN processAITurn(g, started) ELSE <<>>,
                  "ok")

\* playDomino's checks with the hand looked at before the turn
playErrorHandBeforeTurn(g, s, dominoId, side) ==
  IF g \notin DOMAIN games THEN "NotFound"
  ELSE LET game == games[g]
           playerIndex == IndexOfId(game, s)
       IN  IF playerIndex = -1 THEN "NotInGame"
           ELSE LET hand == PlayerAt(game, playerIndex).hand
                    dominoIndex == FindIndex([k \in 1..Len(hand) |->
                                                hand[k].id = dominoId])
                IN  IF dominoIndex = -1 THEN "TileNotInHand"
                    ELSE IF playerIndex # game.currentPlayerIndex THEN "NotYourTurn"
                    ELSE LET verdict == canPlayDomino(hand[dominoIndex + 1],
                                                      game.boardLeftEnd,
                                                      game.boardRightEnd,
                                                      Len(game.board) = 0)
                         IN  IF ~verdict.canPlay THEN "IllegalMove"
                             ELSE IF Len(game.board) # 0
                                     /\ side \notin Range(verdict.sides)
                             THEN "IllegalSide"
                             ELSE "ok"

playError(g, s, dominoId, side) ==
  IF g \notin DOMAIN games THEN "NotFound"
  ELSE LET game == games[g]
           playerIndex == IndexOfId(game, s)
       IN  IF playerIndex = -1 THEN "NotInGame"
           ELSE IF playerIndex # game.currentPlayerIndex THEN "NotYourTurn"
           ELSE LET hand == PlayerAt(game, playerIndex).hand
                    dominoIndex == FindIndex([k \in 1..Len(hand) |->
                                                hand[k].id = dominoId])
                IN  IF dominoIndex = -1 THEN "TileNotInHand"
                    ELSE LET verdict == canPlayDomino(hand[dominoIndex + 1],
                                                      game.boardLeftEnd,
                                                      game.boardRightEnd,
                                                      Len(game.board) = 0)
                         IN  IF ~verdict.canPlay THEN "IllegalMove"
                             ELSE IF Len(game.board) # 0
                                     /\ side \notin Range(verdict.sides)
                             THEN "IllegalSide"
                             ELSE "ok"

playDomino(g, s, dominoId, side) ==
  LET err == playError(g, s, dominoId, side)
      game == games[g]
      playerIndex == IndexOfId(game, s)
      hand == PlayerAt(game, playerIndex).hand
      dominoIndex == FindIndex([k \in 1..Len(hand) |-> hand[k].id = dominoId])
      played == afterAction(placeDomino(game, playerIndex, dominoIndex, side))
  IN  IF err # "ok" THEN Rejected(err)
      ELSE Stored(g, played, triggerAI(g, played), "ok")

\* the pass handler's checks without the look at the hand
passErrorTurnOnly(g, s) ==
  IF g \notin DOMAIN games THEN "NotFound"
  ELSE LET game == games[g]
           playerIndex == IndexOfId(game, s)
       IN  IF playerIndex = -1 \/ playerIndex # game.currentPlayerIndex
           THEN "NotYourTurn"
           ELSE "ok"

passError(g, s) ==
  IF g \notin DOMAIN games THEN "NotFound"
  ELSE LET game == games[g]
           playerIndex == IndexOfId(game, s)
       IN  IF playerIndex = -1 \/ playerIndex # game.currentPlayerIndex
           THEN "NotYourTurn"
           ELSE LET hand == PlayerAt(game, playerIndex).hand
                    hasPlayable ==
                      \E k \in 1..Len(hand) :
                         canPlayDomino(hand[k], game.boardLeftEnd,
                                       game.boardRightEnd,
                                       Len(game.board) = 0).canPlay
                IN  IF hasPlayable THEN "HasLegalMove" ELSE "ok"

pass(g, s) ==
  LET err == passError(g, s)
      game == games[g]
      passed == afterAction([game EXCEPT !.passCount = game.passCount + 1])
  IN  IF err # "ok" THEN Rejected(err)
      ELSE Stored(g, passed, triggerAI(g, passed), "ok")

\* game.players.filter((p) => p.isConnected || p.isAI)
connectedOrAI(players) == SelectSeq(players, LAMBDA p : p.isConnected \/ p.isAI)

\* addAIPlayer: the team the bot goes to, or "none" when both teams are full
aiTargetTeam(players, team) ==
  LET wanted == IF team # "none" THEN team
                ELSE IF TeamCount(players, "team1") <= TeamCount(players, "team2")
                THEN "team1" ELSE "team2"
  IN  IF TeamCount(players, wanted) >= TeamCap
      THEN (IF TeamCount(players, OtherTeam(wanted)) >= TeamCap THEN "none"
            ELSE OtherTeam(wanted))
      ELSE wanted

addAIPlayer(g, team) ==
  IF g \notin DOMAIN games THEN Rejected("NotFound")
  ELSE LET game == games[g]
           cleared == IF game.gamePhase = "waiting"
                      THEN [game EXCEPT !.players = connectedOrAI(game.players)]
                      ELSE game
           targetTeam == aiTargetTeam(cleared.players, team)
           newBot == createAIPlayer(FreshAIId(1), targetTeam)
       IN  IF cleared.gamePhase # "waiting"
           THEN Stored(g, cleared, <<>>, "ActiveGame")
           ELSE IF Len(cleared.players) >= NumSeats
           THEN Stored(g, cleared, <<>>, "LobbyFull")
           ELSE IF targetTeam = "none"
           THEN Stored(g, cleared, <<>>, "BothTeamsFull")
           ELSE Stored(g, [cleared EXCEPT !.players =
                             reorderPlayers(Append(cleared.players, newBot))],
                       <<>>, "ok")

\* autoFillAI's loop stopping after the first bot
fillSeatsOnce(players, k) ==
  IF Len(players) >= NumSeats THEN players
  ELSE IF TeamCount(players, "team1") <= TeamCount(players, "team2")
          /\ TeamCount(players, "team1") < TeamCap
  THEN Append(players, createAIPlayer(FreshAIId(k), "team1"))
  ELSE IF TeamCount(players, "team2") < TeamCap
  THEN Append(players, createAIPlayer(FreshAIId(k), "team2"))
  ELSE players

\* autoFillAI's while loop: add bots to the team with fewer players
RECURSIVE fillSeats(_, _)
fillSeats(players, k) ==
  IF Len(players) >= NumSeats THEN players
  ELSE LET t1 == TeamCount(players, "team1")
           t2 == TeamCount(players, "team2")
       IN  IF t1 <= t2 /\ t1 < TeamCap
           THEN fillSeats(Append(players, createAIPlayer(FreshAIId(k), "team1")), k + 1)
           ELSE IF t2 < TeamCap
           THEN fillSeats(Append(players, createAIPlayer(FreshAIId(k), "team2")), k + 1)
           ELSE players

autoFillAI(g) ==
  IF g \notin DOMAIN games THEN Rejected("NotFound")
  ELSE IF games[g].gamePhase # "waiting" THEN Rejected("ActiveGame")
  ELSE LET game == games[g]
           filled == fillSeats(connectedOrAI(game.players), 1)
       IN  Stored(g, [game EXCEPT !.players = reorderPlayers(filled)], <<>>, "ok")

\* disconnect: in every room, the first seat bound to the socket goes offline
disconnectIn(game, s) ==
  LET playerIndex == IndexOfId(game, s)
  IN  IF playerIndex = -1 THEN game
      ELSE [game EXCEPT !.players[playerIndex + 1].isConnected = FALSE]

disconnect(s) ==
  [games |-> [g \in DOMAIN games |-> disconnectIn(games[g], s)],
   timers |-> timers, err |-> "ok"]

\* joinGame / createAIGame: store the device session for reconnection
storeSession(deviceId, s, g) ==
  IF deviceId = NoDevice THEN deviceSessions
  ELSE (deviceId :> [playerId |-> s, gameId |-> g]) @@ deviceSessions

\* disconnect: the rooms whose device sessions are cleaned up, those where
\* the socket holds a seat and the game is finished or all humans of a
\* waiting room are disconnected
cleanedRooms(s) ==
  {g \in DOMAIN games :
     LET game == disconnectIn(games[g], s)
     IN  /\ IndexOfId(games[g], s) # -1
         /\ \/ game.gamePhase = "finished"
            \/ /\ game.gamePhase = "waiting"
               /\ \A i \in 1..Len(game.players) :
                     ~game.players[i].isAI => ~game.players[i].isConnected}

dropSessions(s) ==
  [d \in {e \in DOMAIN deviceSessions :
             deviceSessions[e].gameId \notin cleanedRooms(s)} |->
     deviceSessions[d]]

\* deviceSessions.delete(deviceId)
deleteSession(deviceId) ==
  [d \in DOMAIN deviceSessions \ {deviceId} |-> deviceSessions[d]]

\* reconnectGame: the seat of the device's session is bound to socket s
reconnectGame(s, deviceId) ==
  IF deviceId = NoDevice
  THEN [games |-> games, sessions |-> deviceSessions, err |-> "NoDeviceId"]
  ELSE IF deviceId \notin DOMAIN deviceSessions
  THEN [games |-> games, sessions |-> deviceSessions, err |-> "NoSession"]
  ELSE LET session == deviceSessions[deviceId]
       IN  IF session.gameId \notin DOMAIN games
           THEN [games |-> games, sessions |-> deleteSession(deviceId),
                 err |-> "NoGame"]
           ELSE LET game == games[session.gameId]
                    playerIndex == IndexOfId(game, session.playerId)
                IN  IF playerIndex = -1
                    THEN [games |-> games, sessions |-> deleteSession(deviceId),
                          err |-> "NoPlayer"]
                    ELSE [games |->
                            [games EXCEPT
                               ![session.gameId].players[playerIndex + 1] =
                                  [@ EXCEPT !.id = s, !.isConnected = TRUE]],
                          sessions |->
                            [deviceSessions EXCEPT ![deviceId].playerId = s],
                          err |-> "ok"]

\* the timer callback scheduling the next AI seat whatever the check found
aiTurnChainsOn(k, move) ==
  LET timer == timers[k]
      g == timer.game
      game == games[g]
      playerIndex == IndexOfId(game, timer.player)
      acted == IF move = <<>>
               THEN [game EXCEPT !.passCount = game.passCount + 1]
               ELSE aiPlaceDomino(game, playerIndex, move[1].domino, move[1].side)
      done == afterAction(acted)
      rest == SubSeq(timers, 1, k - 1) \o SubSeq(timers, k + 1, Len(timers))
  IN  [games |-> [games EXCEPT ![g] = done],
       timers |-> rest \o (IF PlayerAt(done, done.currentPlayerIndex).isAI
                           THEN <<[game |-> g,
                                   player |-> PlayerAt(done, done.currentPlayerIndex).id]>>
                           ELSE <<>>),
       err |-> "ok"]

\* the timer callback leaving its own timer pending
aiTurnKeepsTimer(k, move) ==
  LET timer == timers[k]
      g == timer.game
      game == games[g]
      playerIndex == IndexOfId(game, timer.player)
      acted == IF move = <<>>
               THEN [game EXCEPT !.passCount = game.passCount + 1]
               ELSE aiPlaceDomino(game, playerIndex, move[1].domino, move[1].side)
      chk == checkGameOver(acted)
      done == afterAction(acted)
  IN  [games |-> [games EXCEPT ![g] = done],
       timers |-> timers \o (IF ~chk.over
                                /\ PlayerAt(done, done.currentPlayerIndex).isAI
                             THEN processAITurn(g, done) ELSE <<>>),
       err |-> "ok"]

\* the setTimeout callback of processAITurn for pending timer k, when
\* aiSelectMove returns `move` (<<>>: no move, the AI must pass)
aiTurn(k, move) ==
  LET timer == timers[k]
      g == timer.game
      game == games[g]
      playerIndex == IndexOfId(game, timer.player)
      acted == IF move = <<>>
               THEN [game EXCEPT !.passCount = game.passCount + 1]
               ELSE aiPlaceDomino(game, playerIndex, move[1].domino, move[1].side)
      chk == checkGameOver(acted)
      done == afterAction(acted)
      rest == SubSeq(timers, 1, k - 1) \o SubSeq(timers, k + 1, Len(timers))
  IN  [games |-> [games EXCEPT ![g] = done],
       timers |-> rest \o (IF ~chk.over
                              /\ PlayerAt(done, done.currentPlayerIndex).isAI
                           THEN processAITurn(g, done) ELSE <<>>),
       err |-> "ok"]

(***************************************************************************)
(* The learning state of the AI seats                                      *)
(***************************************************************************)
\* new LearningAI(player.id, "learning", 0.1, difficulty, false, ...): the
\* fields that the decision and the learning hook read and write
newLearningAI ==
  [trainingEnabled |-> FALSE, experienceBuffer |-> <<>>,
   gamesPlayed |-> 0, wins |-> 0, losses |-> 0]

\* createAIPlayer registers a LearningAI for every AI seat it makes: the map
\* after a handler that left the rooms as `rooms`
learnersCreated(ais, rooms) ==
  LET made == {p.id : p \in {q \in UNION {Range(rooms[g].players) : g \in DOMAIN rooms} :
                                q.isAI}} \ DOMAIN ais
  IN  [id \in DOMAIN ais \cup made |->
         IF id \in made THEN newLearningAI ELSE ais[id]]

\* getStateKey: the seven numbers joined into the state signature
getStateKey(game, player) ==
  LET boardEmpty == Len(game.board) = 0
      handPoints == calculateHandScore(player.hand)
      doublesInHand == Len(SelectSeq(player.hand, LAMBDA d : d.left = d.right))
      validMoves == Len(getPlayableDominoes(player.hand, game.boardLeftEnd,
                                            game.boardRightEnd, boardEmpty))
  IN  <<Min(Len(player.hand), 7), Min(handPoints \div 7, 10),
        Min(doublesInHand, 7),
        IF boardEmpty THEN -1 ELSE game.boardLeftEnd,
        IF boardEmpty THEN -1 ELSE game.boardRightEnd,
        Min(Len(game.board) \div 3, 10), Min(validMoves, 10)>>

\* getMoveKey
getMoveKey(domino, side) ==
  <<Min(domino.left, domino.right),
    IF domino.left >= domino.right THEN domino.left ELSE domino.right, side>>

\* chooseMove's experienceBuffer.push: with fewer than two playable dominoes
\* it returns before the push, on both other paths it pushes the move made
recordDecision(ai, game, player, move) ==
  LET playable == getPlayableDominoes(player.hand, game.boardLeftEnd,
                                      game.boardRightEnd, Len(game.board) = 0)
  IN  IF Len(playable) <= 1 THEN ai
      ELSE [ai EXCEPT !.experienceBuffer =
              Append(@, [state |-> getStateKey(game, player),
                         action |-> getMoveKey(move.domino, move.side)])]

\* learnFromGame: the terminal reward, from the winner's entry of game.scores
finalReward(game, result) ==
  LET winningPoints == IF game.winner \in Teams THEN game.scores[game.winner]
                       ELSE 0
  IN  IF result = "win" THEN winningPoints
      ELSE IF result = "loss" THEN -winningPoints
      ELSE 0

\* learnFromGame
learnFromGame(ai, game, result) ==
  IF ~ai.trainingEnabled THEN ai
  ELSE [ai EXCEPT !.gamesPlayed = @ + 1,
                  !.wins = IF result = "win" THEN @ + 1 ELSE @,
                  !.losses = IF result = "loss" THEN @ + 1 ELSE @,
                  !.experienceBuffer = <<>>]

\* the result updateLearningOnGameEnd hands to the LearningAI of a player
resultFor(game, player) ==
  IF game.winner = "draw" THEN "draw"
  ELSE IF player.team = game.winner THEN "win"
  ELSE "loss"

\* updateLearningOnGameEnd: every AI seat of the room that has a LearningAI
\* learns from the round
updateLearningOnGameEnd(game, ais) ==
  IF game.winner = "null" THEN ais
  ELSE LET seats == {p \in Range(game.players) : p.isAI /\ p.id \in DOMAIN ais}
       IN  [id \in DOMAIN ais |->
              IF \E p \in seats : p.id = id
              THEN learnFromGame(ais[id], game,
                                 resultFor(game, CHOOSE p \in seats : p.id = id))
              ELSE ais[id]]

\* the check that follows a placement or a pass, with the learning hook
\* that checkGameOver calls when it ends the round
learnersChecked(acted, ais) ==
  IF checkGameOver(acted).over
  THEN updateLearningOnGameEnd(checkGameOver(acted).game, ais)
  ELSE ais

\* the learning state after the playDomino handler
learnersPlayed(g, s, dominoId, side, ais) ==
  IF playError(g, s, dominoId, side) # "ok" THEN ais
  ELSE LET game == games[g]
           playerIndex == IndexOfId(game, s)
           hand == PlayerAt(game, playerIndex).hand
           dominoIndex == FindIndex([k \in 1..Len(hand) |-> hand[k].id = dominoId])
       IN  learnersChecked(placeDomino(game, playerIndex, dominoIndex, side), ais)

\* the learning state after the pass handler
learnersPassed(g, s, ais) ==
  IF passError(g, s) # "ok" THEN ais
  ELSE learnersChecked([games[g] EXCEPT !.passCount = games[g].passCount + 1], ais)

\* the learning state after the firing of timer k: the decision is recorded
\* by chooseMove, then the move is applied and the round checked
learnersFired(k, move, ais) ==
  LET g == timers[k].game
      game == games[g]
      playerIndex == IndexOfId(game, timers[k].player)
      player == PlayerAt(game, playerIndex)
  IN  IF move = <<>>
      THEN learnersChecked([game EXCEPT !.passCount = game.passCount + 1], ais)
      ELSE learnersChecked(
             aiPlaceDomino(game, playerIndex, move[1].domino, move[1].side),
             IF player.id \in DOMAIN ais
             THEN [ais EXCEPT ![player.id] =
                     recordDecision(@, game, player, move[1])]
             ELSE ais)

(***************************************************************************)
(* Inputs                                                                  *)
(***************************************************************************)
\* outcomes of shuffle(generateDominoes()): permutations of the 28 tile ids
ShuffleTable ==
  << <<16, 13, 18, 3, 0, 6, 23, 26, 8, 2, 17, 15, 11, 1,
       27, 9, 12, 24, 25, 20, 7, 5, 19, 21, 14, 22, 10, 4>>,
     <<7, 5, 15, 11, 19, 0, 16, 23, 8, 26, 14, 6, 20, 9,
       21, 22, 25, 27, 12, 2, 13, 1, 10, 3, 24, 17, 18, 4>>,
     <<22, 4, 26, 12, 10, 3, 11, 18, 23, 6, 0, 16, 24, 20,
       15, 19, 25, 14, 2, 8, 7, 21, 1, 27, 17, 13, 9, 5>>,
     <<20, 3, 22, 12, 10, 11, 16, 15, 17, 19, 21, 25, 7, 23,
       14, 6, 1, 0, 4, 8, 18, 13, 5, 24, 27, 26, 2, 9>> >>

shuffle(array, k) ==
  [i \in 1..Len(array) |-> array[ShuffleTable[k][i] + 1]]

Shuffles ==
  {shuffle(generateDominoes, k) : k \in 1..Min(NumDeals, Len(ShuffleTable))}

TileIds == 0..(DeckSize - 1)

GameModes == {"multiplayer", "vs-ai", "with-ai-partner"}

TeamChoices == Teams \cup {"none"}

\* how many of an actor's n legal options (in enumeration order) are
\* explored: all of them during the first FreeMoves placements of a round
\* of a room that has not scored yet, the first one otherwise
ExploredOptions(game, n) ==
  IF Len(game.board) < FreeMoves /\ game.scores.team1 + game.scores.team2 = 0
  THEN 1..n
  ELSE 1..Min(1, n)

\* the playDomino intents (domino, side) of socket s that room g accepts, in
\* the enumeration order of the acting seat's hand.  A rejected intent leaves
\* the state as it is (RejectedIntentsKeepState), a stuttering step of Spec,
\* so Next enumerates the accepted ones only.
AcceptedIntents(g, s) ==
  IF g \notin DOMAIN games THEN <<>>
  ELSE LET game == games[g]
           playerIndex == IndexOfId(game, s)
       IN  IF playerIndex = -1 \/ playerIndex # game.currentPlayerIndex THEN <<>>
           ELSE MoveOptions(getPlayableDominoes(PlayerAt(game, playerIndex).hand,
                                                game.boardLeftEnd,
                                                game.boardRightEnd,
                                                Len(game.board) = 0))

\* a reconnection is explored when the seat of the device's session is
\* offline (its connection has closed)
ExploredReconnect(deviceId) ==
  IF deviceId \notin DOMAIN deviceSessions THEN TRUE
  ELSE IF deviceSessions[deviceId].gameId \notin DOMAIN games THEN TRUE
  ELSE LET game == games[deviceSessions[deviceId].gameId]
           playerIndex == IndexOfId(game, deviceSessions[deviceId].playerId)
       IN  IF playerIndex = -1 THEN TRUE
           ELSE ~PlayerAt(game, playerIndex).isConnected

\* a start is explored while the cumulative points are at most MaxScore
ExploredStart(g) ==
  IF g \in DOMAIN games
  THEN games[g].scores.team1 + games[g].scores.team2 <= MaxScore
  ELSE TRUE

(***************************************************************************)
(* Specification                                                           *)
(***************************************************************************)
Init ==
  /\ games = [g \in {} |-> createGame]
  /\ timers = <<>>
  /\ closed = {}
  /\ deviceSessions = [d \in {} |-> [playerId |-> 0, gameId |-> ""]]
  /\ learningAIs = [id \in {} |-> newLearningAI]

\* The actions below follow the rooms, the timers and the sessions.  The
\* learning state of the AI seats is read by no handler except to choose
\* among the legal moves, a choice AITurn leaves open; it is followed by the
\* actions of LearningSpec and left as it is here.

\* the intents of a socket arrive while its connection is open; socket ids
\* are not reused once the connection has closed
JoinGame ==
  \E g \in RoomCodes, s \in Sockets \ closed, team \in Teams,
     deviceId \in DeviceIds :
     LET outcome == joinGame(g, s, team)
     IN  /\ games' = outcome.games
         /\ timers' = outcome.timers
         /\ deviceSessions' = IF outcome.err = "ok"
                              THEN storeSession(deviceId, s, g)
                              ELSE deviceSessions
         /\ UNCHANGED closed
         /\ UNCHANGED learningAIs

CreateAIGame ==
  \E g \in RoomCodes, s \in Sockets \ closed, team \in Teams, mode \in GameModes,
     deviceId \in DeviceIds :
     LET outcome == createAIGame(g, s, team, mode)
     IN  /\ games' = outcome.games
         /\ timers' = outcome.timers
         /\ deviceSessions' = IF outcome.err = "ok"
                              THEN storeSession(deviceId, s, g)
                              ELSE deviceSessions
         /\ UNCHANGED closed
         /\ UNCHANGED learningAIs

ReconnectGame ==
  \E s \in Sockets \ closed, deviceId \in DeviceIds :
     LET outcome == reconnectGame(s, deviceId)
     IN  /\ ExploredReconnect(deviceId)
         /\ games' = outcome.games
         /\ deviceSessions' = outcome.sessions
         /\ UNCHANGED <<timers, closed>>
         /\ UNCHANGED learningAIs

\* startGame, addAIPlayer and autoFillAI do not look at the sending socket,
\* which is any socket whose connection is open
StartGame ==
  \E g \in RoomCodes, shuffled \in Shuffles :
     LET outcome == startGame(g, shuffled)
     IN  /\ Sockets # closed
         /\ ExploredStart(g)
         /\ games' = outcome.games
         /\ timers' = outcome.timers
         /\ UNCHANGED <<closed, deviceSessions>>
         /\ UNCHANGED learningAIs

PlayDomino ==
  \E g \in DOMAIN games, s \in Sockets \ closed :
     \E i \in ExploredOptions(games[g], Len(AcceptedIntents(g, s))) :
        LET intent == AcceptedIntents(g, s)[i]
            outcome == playDomino(g, s, intent.domino.id, intent.side)
        IN  /\ games' = outcome.games
            /\ timers' = outcome.timers
            /\ UNCHANGED <<closed, deviceSessions>>
            /\ UNCHANGED learningAIs

Pass ==
  \E g \in DOMAIN games, s \in Sockets \ closed :
     LET outcome == pass(g, s)
     IN  /\ games[g].passCount < MaxPasses
         /\ games' = outcome.games
         /\ timers' = outcome.timers
         /\ UNCHANGED <<closed, deviceSessions>>
         /\ UNCHANGED learningAIs

AddAIPlayer ==
  \E g \in RoomCodes, team \in TeamChoices :
     LET outcome == addAIPlayer(g, team)
     IN  /\ Sockets # closed
         /\ games' = outcome.games
         /\ timers' = outcome.timers
         /\ UNCHANGED <<closed, deviceSessions>>
         /\ UNCHANGED learningAIs

AutoFillAI ==
  \E g \in RoomCodes :
     LET outcome == autoFillAI(g)
     IN  /\ Sockets # closed
         /\ games' = outcome.games
         /\ timers' = outcome.timers
         /\ UNCHANGED <<closed, deviceSessions>>
         /\ UNCHANGED learningAIs

Disconnect ==
  \E s \in Sockets \ closed :
     LET outcome == disconnect(s)
     IN  /\ games' = outcome.games
         /\ timers' = outcome.timers
         /\ closed' = closed \cup {s}
         /\ deviceSessions' = dropSessions(s)
         /\ UNCHANGED learningAIs

AITurn ==
  \E k \in 1..Len(timers) :
     /\ IndexOfId(games[timers[k].game], timers[k].player) # -1
     /\ LET game == games[timers[k].game]
            moves == aiSelectMove(game,
                                  PlayerAt(game, IndexOfId(game, timers[k].player)))
        IN  \E move \in IF moves = <<>> THEN {<<>>}
                        ELSE {<<moves[i]>> : i \in ExploredOptions(game, Len(moves))} :
               LET outcome == aiTurn(k, move)
               IN  /\ moves # <<>> =>
                        chooseMoveReturns(game,
                          PlayerAt(game, IndexOfId(game, timers[k].player)))
                   /\ games' = outcome.games
                   /\ timers' = outcome.timers
                   /\ UNCHANGED <<closed, deviceSessions>>
                   /\ UNCHANGED learningAIs

Next ==
  \/ JoinGame
  \/ CreateAIGame
  \/ ReconnectGame
  \/ StartGame
  \/ PlayDomino
  \/ Pass
  \/ AddAIPlayer
  \/ AutoFillAI
  \/ Disconnect
  \/ AITurn

Spec == Init /\ [][Next]_vars

(***************************************************************************)
(* One room with its learning state                                        *)
(***************************************************************************)
\* the decisions recorded by the AI seats of a room
Recorded(game) ==
  SumSeq([i \in 1..Len(game.players) |->
            IF game.players[i].id \in DOMAIN learningAIs
            THEN Len(learningAIs[game.players[i].id].experienceBuffer)
            ELSE 0])

\* a round is dealt while the AI seats have recorded at most MaxTrail decisions
ExploredTrail(g) == g \in DOMAIN games => Recorded(games[g]) <= MaxTrail

LearnCreate ==
  \E g \in RoomCodes \ DOMAIN games, s \in Sockets \ closed, team \in Teams,
     mode \in GameModes :
     LET outcome == createAIGame(g, s, team, mode)
     IN  /\ games' = outcome.games
         /\ timers' = outcome.timers
         /\ learningAIs' = learnersCreated(learningAIs, outcome.games)
         /\ UNCHANGED <<closed, deviceSessions>>

LearnJoin ==
  \E g \in DOMAIN games, s \in Sockets \ closed, team \in Teams :
     LET outcome == joinGame(g, s, team)
     IN  /\ outcome.err = "ok"
         /\ games' = outcome.games
         /\ timers' = outcome.timers
         /\ learningAIs' = learnersCreated(learningAIs, outcome.games)
         /\ UNCHANGED <<closed, deviceSessions>>

LearnFill ==
  \E g \in DOMAIN games :
     LET outcome == autoFillAI(g)
     IN  /\ Sockets # closed
         /\ outcome.err = "ok"
         /\ Len(games[g].players) < NumSeats
         /\ games' = outcome.games
         /\ timers' = outcome.timers
         /\ learningAIs' = learnersCreated(learningAIs, outcome.games)
         /\ UNCHANGED <<closed, deviceSessions>>

LearnStart ==
  \E g \in DOMAIN games, shuffled \in Shuffles :
     LET outcome == startGame(g, shuffled)
     IN  /\ Sockets # closed
         /\ ExploredStart(g)
         /\ ExploredTrail(g)
         /\ outcome.err = "ok"
         /\ games' = outcome.games
         /\ timers' = outcome.timers
         /\ learningAIs' = learnersCreated(learningAIs, outcome.games)
         /\ UNCHANGED <<closed, deviceSessions>>

LearnPlay ==
  \E g \in DOMAIN games, s \in Sockets \ closed :
     \E i \in ExploredOptions(games[g], Len(AcceptedIntents(g, s))) :
        LET intent == AcceptedIntents(g, s)[i]
            outcome == playDomino(g, s, intent.domino.id, intent.side)
        IN  /\ games' = outcome.games
            /\ timers' = outcome.timers
            /\ learningAIs' = learnersPlayed(g, s, intent.domino.id, intent.side,
                                             learningAIs)
            /\ UNCHANGED <<closed, deviceSessions>>

LearnPass ==
  \E g \in DOMAIN games, s \in Sockets \ closed :
     LET outcome == pass(g, s)
     IN  /\ games[g].passCount < MaxPasses
         /\ outcome.err = "ok"
         /\ games' = outcome.games
         /\ timers' = outcome.timers
         /\ learningAIs' = learnersPassed(g, s, learningAIs)
         /\ UNCHANGED <<closed, deviceSessions>>

LearnFire ==
  \E k \in 1..Len(timers) :
     LET game == games[timers[k].game]
         player == PlayerAt(game, IndexOfId(game, timers[k].player))
         moves == aiSelectMove(game, player)
     IN  \E move \in IF moves = <<>> THEN {<<>>}
                     ELSE {<<moves[i]>> : i \in ExploredOptions(game, Len(moves))} :
            LET outcome == aiTurn(k, move)
            IN  /\ moves # <<>> => chooseMoveReturns(game, player)
                /\ games' = outcome.games
                /\ timers' = outcome.timers
                /\ learningAIs' = learnersFired(k, move, learningAIs)
                /\ UNCHANGED <<closed, deviceSessions>>

LearningNext ==
  \/ LearnCreate
  \/ LearnJoin
  \/ LearnFill
  \/ LearnStart
  \/ LearnPlay
  \/ LearnPass
  \/ LearnFire

LearningSpec == Init /\ [][LearningNext]_vars

(***************************************************************************)
(* Two rooms side by side.  The same handlers and timer callback, on two   *)
(* room codes, with rooms opened by createAIGame, seated by joinGame and   *)
(* autoFillAI, dealt once and played for their first placements.           *)
(***************************************************************************)
TwoRoomCodes == {"A", "B"}

\* both rooms are in their first TwoRoomMoves placements
EarlyRounds == \A g \in DOMAIN games : Len(games[g].board) < TwoRoomMoves

OpenRoom ==
  \E g \in TwoRoomCodes \ DOMAIN games, s \in Sockets \ closed,
     mode \in {"vs-ai", "with-ai-partner"}, deviceId \in DeviceIds :
     LET outcome == createAIGame(g, s, "team1", mode)
     IN  /\ games' = outcome.games
         /\ timers' = outcome.timers
         /\ deviceSessions' = storeSession(deviceId, s, g)
         /\ UNCHANGED closed
         /\ UNCHANGED learningAIs

JoinRoom ==
  \E g \in DOMAIN games, s \in Sockets \ closed, deviceId \in DeviceIds :
     LET outcome == joinGame(g, s, "team2")
     IN  /\ outcome.err = "ok"
         /\ games' = outcome.games
         /\ timers' = outcome.timers
         /\ deviceSessions' = storeSession(deviceId, s, g)
         /\ UNCHANGED closed
         /\ UNCHANGED learningAIs

FillRoom ==
  \E g \in DOMAIN games :
     LET outcome == autoFillAI(g)
     IN  /\ Sockets # closed
         /\ outcome.err = "ok"
         /\ Len(games[g].players) < NumSeats
         /\ games' = outcome.games
         /\ timers' = outcome.timers
         /\ UNCHANGED <<closed, deviceSessions>>
         /\ UNCHANGED learningAIs

DealRoom ==
  \E g \in DOMAIN games, shuffled \in Shuffles :
     LET outcome == startGame(g, shuffled)
     IN  /\ Sockets # closed
         /\ games[g].gamePhase = "waiting"
         /\ outcome.err = "ok"
         /\ games' = outcome.games
         /\ timers' = outcome.timers
         /\ UNCHANGED <<closed, deviceSessions>>
         /\ UNCHANGED learningAIs

PlayFirstOption ==
  \E g \in DOMAIN games, s \in Sockets \ closed :
     LET intent == AcceptedIntents(g, s)[1]
         outcome == playDomino(g, s, intent.domino.id, intent.side)
     IN  /\ EarlyRounds
         /\ AcceptedIntents(g, s) # <<>>
         /\ games' = outcome.games
         /\ timers' = outcome.timers
         /\ UNCHANGED <<closed, deviceSessions>>
         /\ UNCHANGED learningAIs

PassOnce ==
  \E g \in DOMAIN games, s \in Sockets \ closed :
     LET outcome == pass(g, s)
     IN  /\ games[g].passCount = 0
         /\ outcome.err = "ok"
         /\ games' = outcome.games
         /\ timers' = outcome.timers
         /\ UNCHANGED <<closed, deviceSessions>>
         /\ UNCHANGED learningAIs

FireTimer ==
  \E k \in 1..Len(timers) :
     LET game == games[timers[k].game]
         moves == aiSelectMove(game, PlayerAt(game, IndexOfId(game, timers[k].player)))
         outcome == aiTurn(k, IF moves = <<>> THEN <<>> ELSE <<moves[1]>>)
     IN  /\ EarlyRounds
         /\ moves # <<>> =>
              chooseMoveReturns(game, PlayerAt(game, IndexOfId(game, timers[k].player)))
         /\ games' = outcome.games
         /\ timers' = outcome.timers
         /\ UNCHANGED <<closed, deviceSessions>>
         /\ UNCHANGED learningAIs

TwoRoomNext ==
  \/ OpenRoom
  \/ JoinRoom
  \/ FillRoom
  \/ DealRoom
  \/ PlayFirstOption
  \/ PassOnce
  \/ FireTimer

TwoRoomSpec == Init /\ [][TwoRoomNext]_vars

(***************************************************************************)
(* Properties                                                              *)
(***************************************************************************)
\* a room code no room is ever created under, and a socket that never joins
UnknownRoom == "Z"

AnyRoom == RoomCodes \cup {UnknownRoom}

AnySocket == 1..(NumSockets + 1)

Hands(game) == [i \in 1..Len(game.players) |-> game.players[i].hand]

HandSizes(game) == [i \in 1..Len(game.players) |-> Len(game.players[i].hand)]

\* how often tile id occurs in the hands and on the board of a room
Occurrences(game, id) ==
  SumSeq([i \in 1..Len(game.players) |->
            Len(SelectSeq(game.players[i].hand, LAMBDA d : d.id = id))])
  + Len(SelectSeq(game.board, LAMBDA d : d.id = id))

\* tile d carries the two pip values the deck gives its id (either way round)
SamePips(d) ==
  LET t == generateDominoes[d.id + 1]
  IN  \/ d.left = t.left /\ d.right = t.right
      \/ d.left = t.right /\ d.right = t.left

\* a tile of the hand is playable on the room's open ends
HasPlayable(game, hand) ==
  \E k \in 1..Len(hand) :
     \/ Len(game.board) = 0
     \/ hand[k].left \in {game.boardLeftEnd, game.boardRightEnd}
     \/ hand[k].right \in {game.boardLeftEnd, game.boardRightEnd}

\* the step placed a tile in room g / applied a pass in room g
Placed(g) ==
  /\ g \in DOMAIN games
  /\ Len(games'[g].board) = Len(games[g].board) + 1

Passed(g) ==
  /\ g \in DOMAIN games
  /\ games'[g].board = games[g].board
  /\ games'[g].passCount = games[g].passCount + 1

\* the step is an accepted start of room g
Started(g) ==
  /\ g \in DOMAIN games
  /\ games[g].gamePhase # "playing"
  /\ games'[g].gamePhase = "playing"

\* C1: in every state whose phase is playing, each of the 28 tile
\* identities occurs exactly once in the four hands and the board together,
\* with the pips of its identity, and nothing else is there.
DeckConservation ==
  \A g \in DOMAIN games :
     games[g].gamePhase = "playing" =>
        /\ \A id \in TileIds : Occurrences(games[g], id) = 1
        /\ Len(games[g].board) + SumSeq(HandSizes(games[g])) = DeckSize
        /\ \A k \in 1..Len(games[g].board) : SamePips(games[g].board[k])
        /\ \A i \in 1..Len(games[g].players) :
              \A k \in 1..Len(games[g].players[i].hand) :
                 SamePips(games[g].players[i].hand[k])

\* a round in progress after placements and a pass
DeckInPlay ==
  \E g \in DOMAIN games :
     /\ games[g].gamePhase = "playing"
     /\ Len(games[g].board) >= 10
     /\ games[g].passCount = 1

\* C2: while the phase is finished no play or pass is accepted: board,
\* hands, passCount, winner and both cumulative scores stay as the
\* termination check left them until the next start.
FinishedRoundsFrozen ==
  [][\A g \in DOMAIN games :
        (games[g].gamePhase = "finished" /\ games'[g].gamePhase = "finished")
        => /\ games'[g].board = games[g].board
           /\ Hands(games'[g]) = Hands(games[g])
           /\ games'[g].passCount = games[g].passCount
           /\ games'[g].winner = games[g].winner
           /\ games'[g].scores = games[g].scores]_vars

\* C3: the phase changes only waiting -> playing, playing -> finished and
\* finished -> playing (a new room is waiting), and no pass or placement is
\* applied while the phase is waiting.
PhaseTransitions ==
  [][\A g \in DOMAIN games' :
        LET before == IF g \in DOMAIN games THEN games[g].gamePhase ELSE "waiting"
            after == games'[g].gamePhase
        IN  /\ \/ before = after
               \/ <<before, after>> \in {<<"waiting", "playing">>,
                                         <<"playing", "finished">>,
                                         <<"finished", "playing">>}
            /\ before = "waiting" => ~Placed(g) /\ ~Passed(g)]_vars

\* an outcome that carries an error leaves the rooms and timers as they are
KeepsStateIfRejected(outcome) ==
  outcome.err # "ok" => outcome.games = games /\ outcome.timers = timers

\* C4: an intent answered with an error leaves every room (seats, hands,
\* board, ends, turn pointer, passCount, phase, winner, scores) as it was;
\* this covers join, start, playTile, pass, addAI, autoFill, createAIGame.
RejectedIntentsKeepState ==
  \A g \in AnyRoom :
     /\ \A s \in AnySocket, team \in Teams :
           /\ KeepsStateIfRejected(joinGame(g, s, team))
           /\ \A mode \in GameModes :
                 KeepsStateIfRejected(createAIGame(g, s, team, mode))
     /\ \A shuffled \in Shuffles : KeepsStateIfRejected(startGame(g, shuffled))
     /\ \A s \in AnySocket :
           /\ KeepsStateIfRejected(pass(g, s))
           /\ \A id \in TileIds, side \in Sides :
                 KeepsStateIfRejected(playDomino(g, s, id, side))
     /\ \A team \in TeamChoices : KeepsStateIfRejected(addAIPlayer(g, team))
     /\ KeepsStateIfRejected(autoFillAI(g))

\* a round in progress in which intents of every kind are being rejected
IntentsRejected ==
  \E g \in DOMAIN games, s \in Sockets :
     /\ games[g].gamePhase = "playing"
     /\ Len(games[g].board) >= 3
     /\ joinGame(g, s, "team1").err # "ok"
     /\ \E mode \in GameModes : createAIGame(g, s, "team1", mode).err # "ok"
     /\ \E shuffled \in Shuffles : startGame(g, shuffled).err # "ok"
     /\ pass(g, s).err = "HasLegalMove"
     /\ \E id \in TileIds : playDomino(g, s, id, "left").err = "IllegalSide"
     /\ addAIPlayer(g, "none").err # "ok"
     /\ autoFillAI(g).err # "ok"

\* identity s holds a seat of the room; its intents are resolved to the
\* first seat bound to it
HoldsSeat(game, s) == \E i \in 1..Len(game.players) : game.players[i].id = s

SeatOf(game, s) ==
  CHOOSE i \in 1..Len(game.players) :
     /\ game.players[i].id = s
     /\ \A j \in 1..(i - 1) : game.players[j].id # s

IsCurrent(game, s) ==
  HoldsSeat(game, s) /\ SeatOf(game, s) - 1 = game.currentPlayerIndex

InHand(hand, id) == \E k \in 1..Len(hand) : hand[k].id = id

TileOf(hand, id) == hand[CHOOSE k \in 1..Len(hand) : hand[k].id = id]

PlayErrors ==
  <<"NotFound", "NotInGame", "NotYourTurn", "TileNotInHand", "IllegalMove",
    "IllegalSide">>

\* the six conditions of an accepted playTile, each meaningful once the
\* earlier ones hold
PlayConditions(g, s, id, side) ==
  LET exists == g \in DOMAIN games
      seated == exists /\ HoldsSeat(games[g], s)
      current == seated /\ IsCurrent(games[g], s)
      inHand == current /\ InHand(games[g].players[SeatOf(games[g], s)].hand, id)
      oracle == canPlayDomino(TileOf(games[g].players[SeatOf(games[g], s)].hand, id),
                              games[g].boardLeftEnd, games[g].boardRightEnd,
                              Len(games[g].board) = 0)
      playable == inHand /\ oracle.canPlay
      sideLegal == playable /\ (Len(games[g].board) = 0 \/ side \in Range(oracle.sides))
  IN  <<exists, seated, current, inHand, playable, sideLegal>>

\* the answer the conditions call for: the error of the first one that fails
PlayAnswer(g, s, id, side) ==
  LET holds == PlayConditions(g, s, id, side)
      failing == FindIndex([n \in 1..Len(PlayErrors) |-> ~holds[n]])
  IN  IF failing = -1 THEN "ok" ELSE PlayErrors[failing + 1]

\* C5: playTile is accepted iff the room exists, the identity holds a seat,
\* that seat is current, the tile is in its hand, the oracle reports it
\* playable and (the board is empty or the side is legal); otherwise the
\* answer is the first failing condition's error, in the order NotFound,
\* NotInGame, NotYourTurn, TileNotInHand, IllegalMove, IllegalSide.  An
\* accepted intent puts the tile on the board.
PlayTileAcceptance ==
  \A g \in AnyRoom, s \in AnySocket, id \in TileIds, side \in Sides :
     LET outcome == playDomino(g, s, id, side)
     IN  /\ outcome.err = PlayAnswer(g, s, id, side)
         /\ outcome.err = "ok" =>
               /\ InHand(outcome.games[g].board, id)
               /\ Len(outcome.games[g].board) = Len(games[g].board) + 1

\* a round in progress in which every answer of playTile occurs
EveryPlayAnswer ==
  \E g \in DOMAIN games :
     /\ games[g].gamePhase = "playing"
     /\ Len(games[g].board) >= 2
     /\ \A answer \in Range(PlayErrors) \cup {"ok"} :
           \E r \in AnyRoom, s \in AnySocket, id \in TileIds, side \in Sides :
              playDomino(r, s, id, side).err = answer

\* what a pass intent of identity s is answered in room g
PassAnswers(g, s) ==
  LET game == games[g]
      hand == game.players[SeatOf(game, s)].hand
  IN  /\ ~IsCurrent(game, s) => pass(g, s).err = "NotYourTurn"
      /\ IsCurrent(game, s) /\ HasPlayable(game, hand)
           => pass(g, s).err = "HasLegalMove"
      /\ pass(g, s).err = "ok"
           => IsCurrent(game, s) /\ ~HasPlayable(game, hand)

\* a pending AI turn belongs to the current seat and passes only when the
\* seat holds no playable tile
AIPassAnswers(k) ==
  LET game == games[timers[k].game]
      seat == IndexOfId(game, timers[k].player)
  IN  /\ seat = game.currentPlayerIndex
      /\ (aiSelectMove(game, PlayerAt(game, seat)) = <<>>)
           <=> ~HasPlayable(game, PlayerAt(game, seat).hand)

\* C6: a pass (human intent or AI timer) is applied only for the current
\* seat and only when no tile of its hand is playable on either open end; a
\* human pass with a playable tile is answered HasLegalMove, a pass from a
\* seat that is not current NotYourTurn, and an AI seat never passes while
\* it holds a playable tile.
PassingOnlyWhenBlocked ==
  /\ [](/\ \A g \in DOMAIN games, s \in AnySocket : PassAnswers(g, s)
        /\ \A k \in 1..Len(timers) : AIPassAnswers(k))
  /\ [][\A g \in DOMAIN games :
           Passed(g) =>
              ~HasPlayable(games[g],
                           PlayerAt(games[g], games[g].currentPlayerIndex).hand)]_vars

\* a round in which an AI seat has just passed and the human seat that is
\* current now holds a playable tile
BlockedSeatPassed ==
  \E g \in DOMAIN games, s \in Sockets :
     LET game == games[g]
     IN  /\ game.gamePhase = "playing"
         /\ game.passCount >= 1
         /\ PlayerAt(game, (game.currentPlayerIndex + NumSeats - 1) % NumSeats).isAI
         /\ pass(g, s).err = "HasLegalMove"
         /\ \E other \in Sockets : pass(g, other).err = "NotYourTurn"

\* C7: every accepted placement or pass that does not end the round moves
\* the turn pointer by exactly +1 mod 4 (so N of them from seat i lead to
\* seat (i + N) mod 4) and hands the turn to the other team; one that ends
\* the round leaves the pointer where it is, and so does every step that is
\* no placement, pass or start and every rejected playTile or pass intent.
TurnRotation ==
  /\ [][\A g \in DOMAIN games :
           LET before == games[g].currentPlayerIndex
               after == games'[g].currentPlayerIndex
           IN  /\ (Placed(g) \/ Passed(g)) /\ games'[g].gamePhase # "finished"
                    => /\ after = (before + 1) % NumSeats
                       /\ PlayerAt(games'[g], after).team
                            # PlayerAt(games[g], before).team
               /\ (Placed(g) \/ Passed(g)) /\ games'[g].gamePhase = "finished"
                    => after = before
               /\ ~(Placed(g) \/ Passed(g) \/ Started(g)) => after = before]_vars
  /\ [](\A g \in DOMAIN games, s \in AnySocket :
           /\ pass(g, s).err # "ok"
                => pass(g, s).games[g].currentPlayerIndex
                     = games[g].currentPlayerIndex
           /\ \A id \in TileIds, side \in Sides :
                 playDomino(g, s, id, side).err # "ok"
                 => playDomino(g, s, id, side).games[g].currentPlayerIndex
                      = games[g].currentPlayerIndex)

\* a round in which the turn has gone round the table, passes included, and
\* has reached an AI seat
TurnWentRound ==
  \E g \in DOMAIN games :
     /\ games[g].gamePhase = "playing"
     /\ Len(games[g].board) >= 6
     /\ games[g].passCount >= 1
     /\ PlayerAt(games[g], games[g].currentPlayerIndex).isAI
     /\ \E i \in 1..NumSeats : ~games[g].players[i].isAI

\* C8: passCount is set to 0 by every accepted placement and by start and
\* grows by exactly 1 with every accepted pass; it lies in 0..3 in every
\* playing state, the pass that brings it to 4 ends the round in the same
\* step, and it never exceeds 4.
PassCountDiscipline ==
  /\ [](\A g \in DOMAIN games :
           /\ games[g].passCount <= BlockedPasses
           /\ games[g].gamePhase = "playing"
                => games[g].passCount \in 0..(BlockedPasses - 1))
  /\ [][\A g \in DOMAIN games :
           /\ Placed(g) \/ Started(g) => games'[g].passCount = 0
           /\ games'[g].passCount \in {games[g].passCount,
                                       games[g].passCount + 1, 0}
           /\ games'[g].passCount = BlockedPasses
                => games'[g].gamePhase = "finished"]_vars

\* the seat whose hand lost a tile in the step
ActingSeat(g) ==
  CHOOSE i \in 1..Len(games[g].players) :
     Len(games'[g].players[i].hand) < Len(games[g].players[i].hand)

\* the pips left in the hands of the seats that are not on the team
OpponentPips(game, team) ==
  SumSeq([i \in 1..Len(game.players) |->
            IF game.players[i].team # team
            THEN calculateHandScore(game.players[i].hand) ELSE 0])

\* the step ends a round of room g with a team as winner
DecisiveEnd(g) ==
  /\ g \in DOMAIN games
  /\ games[g].gamePhase # "finished"
  /\ games'[g].gamePhase = "finished"
  /\ games'[g].winner \in Teams

\* the first seat that holds the minimum hand total
FirstMinSeat(game) ==
  CHOOSE i \in 1..Len(game.players) :
     /\ \A j \in 1..Len(game.players) :
           calculateHandScore(game.players[i].hand)
             <= calculateHandScore(game.players[j].hand)
     /\ \A j \in 1..(i - 1) :
           calculateHandScore(game.players[j].hand)
             > calculateHandScore(game.players[i].hand)

\* the pips left in the hands of the seats of another identity than the
\* first minimum seat's
OtherSeatsPips(game) ==
  SumSeq([i \in 1..Len(game.players) |->
            IF game.players[i].id # game.players[FirstMinSeat(game)].id
            THEN calculateHandScore(game.players[i].hand) ELSE 0])

\* the round of the room ended by an emptied hand (of the current seat)
EndedByEmptiedHand(game) ==
  Len(PlayerAt(game, game.currentPlayerIndex).hand) = 0

EmptiedHandTermination ==
  [][\A g \in DOMAIN games :
        Placed(g) /\ Len(games'[g].players[ActingSeat(g)].hand) = 0 =>
           LET team == games[g].players[ActingSeat(g)].team
           IN  /\ ActingSeat(g) - 1 = games[g].currentPlayerIndex
               /\ games'[g].gamePhase = "finished"
               /\ games'[g].winner = team
               /\ games'[g].currentPlayerIndex = games[g].currentPlayerIndex
               /\ games'[g].scores[team]
                    = games[g].scores[team] + OpponentPips(games'[g], team)
               /\ games'[g].scores[OtherTeam(team)]
                    = games[g].scores[OtherTeam(team)]]_vars

\* a round won by the seat that emptied its hand while its partner still
\* holds pips
HandEmptied ==
  \E g \in DOMAIN games :
     LET game == games[g]
         winnerSeat == PlayerAt(game, game.currentPlayerIndex)
         partner == PlayerAt(game, (game.currentPlayerIndex + 2) % NumSeats)
     IN  /\ game.gamePhase = "finished"
         /\ Len(game.board) > 0
         /\ Len(winnerSeat.hand) = 0
         /\ game.winner = winnerSeat.team
         /\ calculateHandScore(partner.hand) > 0
         /\ game.scores[game.winner] = OpponentPips(game, game.winner)
         /\ game.scores[game.winner] > 0

HandTotals(game) ==
  [i \in 1..Len(game.players) |-> calculateHandScore(game.players[i].hand)]

\* the seats that hold the minimum of the hand totals, and their teams
MinSeats(game) ==
  {i \in 1..Len(game.players) :
     \A j \in 1..Len(game.players) : HandTotals(game)[i] <= HandTotals(game)[j]}

MinTeams(game) == {game.players[i].team : i \in MinSeats(game)}

\* the step ends a round of room g by blockage: a pass in a round being
\* played brings passCount to 4
BlockedEnd(g) ==
  /\ g \in DOMAIN games
  /\ games[g].gamePhase = "playing"
  /\ Passed(g)
  /\ games'[g].passCount = BlockedPasses

\* C11: when a pass brings passCount to 4 the round is finished and, with m
\* the minimum of the four hand totals, the winner is the team of the seats
\* holding m if they are all on one team, and "draw" if seats of both teams
\* hold m.
BlockageWinner ==
  [][\A g \in DOMAIN games :
        BlockedEnd(g) =>
           LET game == games'[g]
           IN  /\ game.gamePhase = "finished"
               /\ Len(game.players) = NumSeats
               /\ Hands(game) = Hands(games[g])
               /\ MinTeams(game) = Teams => game.winner = "draw"
               /\ MinTeams(game) # Teams => MinTeams(game) = {game.winner}]_vars

\* a blockage in which exactly one seat of each team holds the minimum
BlockageDrawn ==
  \E g \in DOMAIN games :
     LET game == games[g]
     IN  /\ game.gamePhase = "finished"
         /\ game.passCount = BlockedPasses
         /\ Len(game.board) > 0
         /\ game.winner = "draw"
         /\ Cardinality(MinSeats(game)) = 2
         /\ MinTeams(game) = Teams
         /\ \A i \in 1..NumSeats : HandTotals(game)[i] > 0

\* no two seats of the room carry the same identity
DistinctIds(game) ==
  \A i, j \in 1..Len(game.players) :
     i # j => game.players[i].id # game.players[j].id

\* the pips left in the hands of the seats that do not hold the minimum
NonMinimumPips(game) ==
  SumSeq([i \in 1..Len(game.players) |->
            IF i \in MinSeats(game) THEN 0 ELSE HandTotals(game)[i]])

\* C12: on a decisive blockage the winner's score grows by the totals of
\* the seats that do not hold the minimum total (a teammate tied at the
\* minimum adds nothing) and the other score is unchanged; on a drawn
\* blockage no score changes.  Stated for rooms whose seats carry distinct
\* identities.
BlockageScoring ==
  [][\A g \in DOMAIN games :
        BlockedEnd(g) /\ DistinctIds(games[g]) =>
           LET game == games'[g]
               won == game.winner
           IN  /\ won = "draw" => game.scores = games[g].scores
               /\ won \in Teams =>
                     /\ game.scores[won]
                          = games[g].scores[won] + NonMinimumPips(game)
                     /\ game.scores[OtherTeam(won)]
                          = games[g].scores[OtherTeam(won)]]_vars

\* the seats of a room: their order, teams and kinds (the identity bound to
\* a seat and its connection flag are what disconnect and reconnect change)
SeatList(game) ==
  [i \in 1..Len(game.players) |->
     [team |-> game.players[i].team, isAI |-> game.players[i].isAI]]

\* no room has more than 4 seats nor more than 2 seats on one team
SeatCaps ==
  \A g \in DOMAIN games :
    /\ Len(games[g].players) <= NumSeats
    /\ \A team \in Teams : TeamCount(games[g].players, team) <= TeamCap

\* the room a join to g finds: the stored one, or a fresh one
RoomJoined(g) == IF g \in DOMAIN games THEN games[g] ELSE createGame

\* the seat list of a room does not change while it is playing or finished
SeatListStable ==
  \A g \in DOMAIN games :
    games[g].gamePhase \in {"playing", "finished"}
      => /\ g \in DOMAIN games'
         /\ SeatList(games'[g]) = SeatList(games[g])

\* the answer to every join is the one the three sentences of the claim give,
\* each taken on its own
JoinErrorsAsStated ==
  \A g \in AnyRoom, s \in Sockets, team \in Teams :
    LET game == RoomJoined(g)
        err == joinGame(g, s, team).err
    IN  /\ TeamCount(game.players, team) >= TeamCap => err = "TeamFull"
        /\ Len(game.players) >= NumSeats => err = "RoomFull"
        /\ game.gamePhase # "waiting" => err = "AlreadyStarted"

\* the answer to every join, with the precedence of the checks: TeamFull
\* when the chosen team has 2 seats (so always when the room has 4 seats),
\* otherwise AlreadyStarted when the phase is not waiting, otherwise the
\* join is accepted and adds one seat of the chosen team; RoomFull is never
\* the answer
JoinErrorsInOrder ==
  \A g \in AnyRoom, s \in Sockets, team \in Teams :
    LET game == RoomJoined(g)
        outcome == joinGame(g, s, team)
    IN  /\ outcome.err =
             (IF TeamCount(game.players, team) >= TeamCap THEN "TeamFull"
              ELSE IF game.gamePhase # "waiting" THEN "AlreadyStarted"
              ELSE "ok")
        /\ Len(game.players) >= NumSeats => outcome.err = "TeamFull"
        /\ outcome.err = "ok" =>
             /\ Len(outcome.games[g].players) = Len(game.players) + 1
             /\ TeamCount(outcome.games[g].players, team)
                  = TeamCount(game.players, team) + 1

\* C13 (as stated): no room ever has more than 4 seats nor more than 2 on
\* one team; a join to a team with 2 seats is answered TeamFull, a join to a
\* room with 4 seats RoomFull, a join while the phase is not waiting
\* AlreadyStarted; the seat list never changes while the phase is playing or
\* finished.
SeatCapsAndJoinErrors ==
  /\ [](SeatCaps /\ JoinErrorsAsStated)
  /\ [][SeatListStable]_vars

\* C13 (amended): the caps and the stability of the seat list hold as
\* stated; the join errors are decided in the order TeamFull, RoomFull,
\* AlreadyStarted, so a join to a room with 4 seats is answered TeamFull
\* and RoomFull is never emitted.
SeatCapsAndJoinErrorsAmended ==
  /\ [](SeatCaps /\ JoinErrorsInOrder)
  /\ [][SeatListStable]_vars

\* a round is being played with a seat offline, and a join to the full room
\* is answered TeamFull
FullRoomJoinRefused ==
  \E g \in DOMAIN games :
    /\ games[g].gamePhase = "playing"
    /\ Len(games[g].players) = NumSeats
    /\ \E i \in 1..NumSeats : ~games[g].players[i].isConnected
    /\ \E s \in Sockets \ closed, team \in Teams :
         joinGame(g, s, team).err = "TeamFull"

\* the seats of one team, in the order of the seat list
TeamSeats(players, team) == SelectSeq(players, LAMBDA p : p.team = team)

\* T1[0], T2[0], T1[1], T2[1], ... of two lists, a missing seat skipped
RECURSIVE Interleaving(_, _)
Interleaving(first, second) ==
  IF first = <<>> THEN second
  ELSE <<Head(first)>> \o Interleaving(second, Tail(first))

Interleaved(players) ==
  /\ \A i \in 1..Len(players) : players[i].team \in Teams
  /\ players = IF Len(TeamSeats(players, "team1")) >= Len(TeamSeats(players, "team2"))
               THEN Interleaving(TeamSeats(players, "team1"),
                                 TeamSeats(players, "team2"))
               ELSE LET t1 == TeamSeats(players, "team1")
                        t2 == TeamSeats(players, "team2")
                    IN  Interleaving(t1, SubSeq(t2, 1, Len(t1)))
                        \o SubSeq(t2, Len(t1) + 1, Len(t2))

\* the seats of every room are interleaved, and a round is played by 4
\* seats, seats 0 and 2 of team1 and seats 1 and 3 of team2
SeatsInterleaved ==
  \A g \in DOMAIN games :
    /\ Interleaved(games[g].players)
    /\ games[g].gamePhase = "playing" =>
         /\ Len(games[g].players) = NumSeats
         /\ \A i \in 0..(NumSeats - 1) :
              PlayerAt(games[g], i).team = IF i % 2 = 0 THEN "team1" ELSE "team2"

\* `after` seats the kept seats of `before` in their order, team by team,
\* followed by the seats added: added[team] is the list added to the team
SeatedAfter(before, after, added) ==
  /\ Interleaved(after)
  /\ \A team \in Teams :
       TeamSeats(after, team) = TeamSeats(before, team) \o added[team]

\* one seat added to `team`, none to the other team
OneSeat(player, team) ==
  [t \in Teams |-> IF t = team THEN <<player>> ELSE <<>>]

\* every accepted join, createAIGame, addAIPlayer and autoFillAI leaves the
\* room's seats interleaved, the seats it keeps in their order on their
\* teams and the new seats behind them
SeatingKeepsJoinOrder ==
  /\ \A g \in AnyRoom, s \in Sockets, team \in Teams :
       LET outcome == joinGame(g, s, team)
       IN  outcome.err = "ok" =>
             SeatedAfter(RoomJoined(g).players, outcome.games[g].players,
                         OneSeat(humanPlayer(s, team), team))
  /\ \A g \in AnyRoom, s \in Sockets, team \in Teams, gameMode \in GameModes :
       LET outcome == createAIGame(g, s, team, gameMode)
           seats == outcome.games[g].players
       IN  outcome.err = "ok" =>
             /\ Interleaved(seats)
             /\ Head(TeamSeats(seats, team)) = humanPlayer(s, team)
             /\ \A i \in 1..Len(seats) :
                  seats[i].isAI \/ seats[i] = humanPlayer(s, team)
  /\ \A g \in DOMAIN games, team \in TeamChoices :
       LET outcome == addAIPlayer(g, team)
           kept == connectedOrAI(games[g].players)
       IN  outcome.err = "ok" =>
             \E to \in Teams :
               /\ team \in Teams /\ TeamCount(kept, team) < TeamCap => to = team
               /\ SeatedAfter(kept, outcome.games[g].players,
                              OneSeat(createAIPlayer(FreshAIId(1), to), to))
  /\ \A g \in DOMAIN games :
       LET outcome == autoFillAI(g)
           kept == connectedOrAI(games[g].players)
           seats == outcome.games[g].players
       IN  outcome.err = "ok" =>
             /\ Interleaved(seats)
             /\ Len(seats) = NumSeats
             /\ \A team \in Teams :
                  LET old == TeamSeats(kept, team)
                      new == TeamSeats(seats, team)
                  IN  /\ Len(new) = TeamCap
                      /\ SubSeq(new, 1, Len(old)) = old
                      /\ \A i \in (Len(old) + 1)..Len(new) : new[i].isAI

\* C14: after every accepted join, addAIPlayer, autoFillAI and
\* createAIGame the seat list is the interleaving T1[0],T2[0],T1[1],T2[1] of
\* the two teams' seats, each team's seats in their join order and each seat
\* on its join-time team; whenever the phase is playing there are exactly 4
\* seats, seats 0 and 2 of team1 and seats 1 and 3 of team2.
SeatOrdering == SeatsInterleaved /\ SeatingKeepsJoinOrder

\* a waiting room seats three players, two of team2 and one of team1, and a
\* join to team1 is accepted
UnevenTeamsSeated ==
  \E g \in DOMAIN games :
    /\ games[g].gamePhase = "waiting"
    /\ TeamCount(games[g].players, "team2") = 2
    /\ TeamCount(games[g].players, "team1") = 1
    /\ \E s \in Sockets \ closed : joinGame(g, s, "team1").err = "ok"

\* every outcome of the shuffle the table holds
EveryShuffle == {shuffle(generateDominoes, k) : k \in 1..Len(ShuffleTable)}

\* a round just dealt: playing, 4 hands of 7, nothing on the board
FreshRound(game) ==
  /\ game.gamePhase = "playing"
  /\ Len(game.players) = NumSeats
  /\ \A i \in 1..Len(game.players) : Len(game.players[i].hand) = HandSize
  /\ game.board = <<>>
  /\ game.boardLeftEnd = EmptyEnd
  /\ game.boardRightEnd = EmptyEnd
  /\ game.passCount = 0
  /\ game.winner = "null"

\* the answer to every start, and the round an accepted start leaves: the
\* hands are the four consecutive sevens of the shuffled deck
StartAnswers ==
  \A g \in AnyRoom, shuffled \in EveryShuffle :
    LET outcome == startGame(g, shuffled)
        exists == g \in DOMAIN games
        seated == exists /\ Len(games[g].players) = NumSeats
        idle == exists /\ games[g].gamePhase \in {"waiting", "finished"}
    IN  /\ outcome.err = "ok" <=> (seated /\ idle)
        /\ outcome.err \in {"ok", "NotFound", "WrongPlayerCount", "AlreadyStarted"}
        /\ ~exists => outcome.err = "NotFound"
        /\ exists /\ ~seated /\ idle => outcome.err = "WrongPlayerCount"
        /\ seated /\ ~idle => outcome.err = "AlreadyStarted"
        /\ outcome.err = "ok" =>
             /\ FreshRound(outcome.games[g])
             /\ \A i \in 1..NumSeats :
                  outcome.games[g].players[i].hand
                    = SubSeq(shuffled, HandSize * (i - 1) + 1, HandSize * i)

\* C15: start is accepted iff the room exists, has exactly 4 seats and its
\* phase is waiting or finished (NotFound, WrongPlayerCount, AlreadyStarted
\* otherwise); right after an accepted start, from waiting or from finished,
\* the phase is playing, each of the 4 seats holds exactly 7 tiles, the board
\* is empty, both ends are the empty sentinel, passCount is 0 and winner is
\* null, nothing of the previous round being carried over.
StartAndDeal ==
  /\ []StartAnswers
  /\ [][\A g \in RoomCodes : Started(g) => FreshRound(games'[g])]_vars

\* a rematch has just been dealt: points were scored in the room and a fresh
\* round is being played
RematchDealt ==
  \E g \in DOMAIN games :
    /\ FreshRound(games[g])
    /\ games[g].scores.team1 + games[g].scores.team2 > 0

\* the step ends a round of room g
RoundEnded(g) ==
  /\ games[g].gamePhase = "playing"
  /\ games'[g].gamePhase = "finished"

\* C16: a start (first or rematch) never changes either team's cumulative
\* score; the scores are 0/0 when the room is created, change only in the
\* step that ends a round, and never decrease.
ScoreCarryOver ==
  [][/\ \A g \in DOMAIN games' \ DOMAIN games :
          games'[g].scores = [team1 |-> 0, team2 |-> 0]
     /\ \A g \in DOMAIN games :
          /\ g \in DOMAIN games'
          /\ Started(g) => games'[g].scores = games[g].scores
          /\ games'[g].scores # games[g].scores => RoundEnded(g)
          /\ games'[g].scores.team1 >= games[g].scores.team1
          /\ games'[g].scores.team2 >= games[g].scores.team2]_vars

\* the lowest-index seat of a team, 0-based
FirstSeatOf(game, team) ==
  CHOOSE i \in 0..(Len(game.players) - 1) :
    /\ PlayerAt(game, i).team = team
    /\ \A j \in 0..(i - 1) : PlayerAt(game, j).team # team

\* every accepted start of a finished room won by a team opens with the
\* lowest-index seat of that team, seat 0 or seat 1, whatever is dealt
WinnersOpen ==
  \A g \in DOMAIN games, shuffled \in EveryShuffle :
    LET outcome == startGame(g, shuffled)
        winner == games[g].winner
    IN  (outcome.err = "ok" /\ games[g].gamePhase = "finished" /\ winner \in Teams)
        => /\ outcome.games[g].currentPlayerIndex = FirstSeatOf(games[g], winner)
           /\ outcome.games[g].currentPlayerIndex
                = IF winner = "team1" THEN 0 ELSE 1
           /\ outcome.games[g].lastWinner = "null"

\* C17: when start is accepted from a finished round won by team1 or team2
\* the opening seat is the lowest-index seat of that team (seat 0 for team1,
\* seat 1 for team2) whatever tiles were dealt; the precedence is consumed by
\* that start: no room carries a remembered winner from one intent to the
\* next.
OpeningAfterDecisiveRound ==
  /\ [](WinnersOpen /\ \A g \in DOMAIN games : games[g].lastWinner = "null")
  /\ [][\A g \in DOMAIN games :
          (Started(g) /\ games[g].gamePhase = "finished"
             /\ games[g].winner \in Teams)
          => games'[g].currentPlayerIndex
               = FirstSeatOf(games[g], games[g].winner)]_vars

\* a rematch after a round won by team2 has just been dealt: seat 1 opens
\* although another seat holds the highest double
Team2Reopens ==
  \E g \in DOMAIN games :
    /\ FreshRound(games[g])
    /\ games[g].scores.team1 = 0
    /\ games[g].scores.team2 > 0
    /\ games[g].currentPlayerIndex = 1
    /\ findStartingPlayer(games[g]) # 1

\* the room has no decisive previous round: never started, or drawn
NoDecisiveRound(game) ==
  \/ game.gamePhase = "waiting"
  \/ game.gamePhase = "finished" /\ game.winner = "draw"

\* the seats of a room holding the double of value d, 0-based
HoldersOf(game, d) ==
  {i \in 0..(Len(game.players) - 1) :
     \E k \in 1..Len(PlayerAt(game, i).hand) :
        /\ PlayerAt(game, i).hand[k].left = d
        /\ PlayerAt(game, i).hand[k].right = d}

\* every accepted start of a room without a decisive previous round opens
\* with the one seat holding the double-six
DoubleSixOpens ==
  \A g \in DOMAIN games, shuffled \in EveryShuffle :
    LET outcome == startGame(g, shuffled)
    IN  (outcome.err = "ok" /\ NoDecisiveRound(games[g]))
        => HoldersOf(outcome.games[g], MaxPip)
             = {outcome.games[g].currentPlayerIndex}

Pips == 0..MaxPip

\* what the claim says of canPlayDomino's answer for a tile and two ends
LegalAnswer(domino, leftEnd, rightEnd, boardEmpty) ==
  LET answer == canPlayDomino(domino, leftEnd, rightEnd, boardEmpty)
      sides == Range(answer.sides)
  IN  /\ Len(answer.sides) = Cardinality(sides)
      /\ sides \subseteq Sides
      /\ IF boardEmpty
         THEN answer.canPlay /\ sides = Sides
         ELSE /\ "left" \in sides
                   <=> (domino.left = leftEnd \/ domino.right = leftEnd)
              /\ "right" \in sides
                   <=> (domino.left = rightEnd \/ domino.right = rightEnd)
              /\ answer.canPlay <=> sides # {}

\* the oracle on every tile of the deck and every pair of ends
LegalOnEveryInput ==
  \A n \in 1..DeckSize, leftEnd \in Pips, rightEnd \in Pips :
    /\ LegalAnswer(generateDominoes[n], leftEnd, rightEnd, TRUE)
    /\ LegalAnswer(generateDominoes[n], leftEnd, rightEnd, FALSE)

\* the oracle on every tile against the ends of every room, as the
\* handlers call it
LegalInEveryRoom ==
  \A g \in DOMAIN games, n \in 1..DeckSize :
    /\ LegalAnswer(generateDominoes[n], games[g].boardLeftEnd,
                   games[g].boardRightEnd, Len(games[g].board) = 0)
    /\ LegalAnswer(flip(generateDominoes[n]), games[g].boardLeftEnd,
                   games[g].boardRightEnd, Len(games[g].board) = 0)

\* C19: for every tile (a,b) and ends (L,R) with pips in 0..6,
\* canPlayDomino on an empty board answers playable with sides left and
\* right; on a non-empty board left is in sides iff a = L or b = L, right is
\* in sides iff a = R or b = R, and playable is true iff sides is not empty.
LegalityOracle == LegalOnEveryInput /\ LegalInEveryRoom

\* in a round with different open ends the seat to move holds a tile
\* playable on the right only and a tile matching neither end
OneSidedAndDeadTiles ==
  \E g \in DOMAIN games :
    LET game == games[g]
        hand == PlayerAt(game, game.currentPlayerIndex).hand
        sidesOf(k) == canPlayDomino(hand[k], game.boardLeftEnd,
                                    game.boardRightEnd, FALSE).sides
    IN  /\ game.gamePhase = "playing"
        /\ Len(game.board) > 0
        /\ game.boardLeftEnd # game.boardRightEnd
        /\ \E k \in 1..Len(hand) : sidesOf(k) = <<"right">>
        /\ \E k \in 1..Len(hand) : sidesOf(k) = <<>>

\* the value of tile (a,b) not used to match `end`
UnusedValue(domino, end) ==
  IF domino.left = end THEN domino.right ELSE domino.left

\* the tile the acting seat placed in the step, as it lay in the hand
PlacedTile(g) ==
  LET before == games[g].players[ActingSeat(g)].hand
      after == games'[g].players[ActingSeat(g)].hand
  IN  before[CHOOSE k \in 1..Len(before) : ~InHand(after, before[k].id)]

\* the placement of the step is made as the claim says
OrientedPlacement(g) ==
  LET game == games[g]
      tile == PlacedTile(g)
      leftEnd == game.boardLeftEnd
      rightEnd == game.boardRightEnd
      onLeft == SubSeq(games'[g].board, 2, Len(game.board) + 1) = game.board
      onRight == SubSeq(games'[g].board, 1, Len(game.board)) = game.board
  IN  IF game.board = <<>>
      THEN /\ games'[g].board = <<tile>>
           /\ games'[g].boardLeftEnd = tile.left
           /\ games'[g].boardRightEnd = tile.right
      ELSE \/ /\ onLeft
              /\ tile.left = leftEnd \/ tile.right = leftEnd
              /\ games'[g].boardLeftEnd = UnusedValue(tile, leftEnd)
              /\ games'[g].boardRightEnd = rightEnd
              /\ Head(games'[g].board).id = tile.id
              /\ Head(games'[g].board).left = games'[g].boardLeftEnd
              /\ Head(games'[g].board).right = leftEnd
           \/ /\ onRight
              /\ tile.left = rightEnd \/ tile.right = rightEnd
              /\ games'[g].boardRightEnd = UnusedValue(tile, rightEnd)
              /\ games'[g].boardLeftEnd = leftEnd
              /\ games'[g].board[Len(games'[g].board)].id = tile.id
              /\ games'[g].board[Len(games'[g].board)].right
                   = games'[g].boardRightEnd
              /\ games'[g].board[Len(games'[g].board)].left = rightEnd

\* every accepted playDomino places as the claim says: on the side asked
\* for, and on an empty board the same whichever side is asked for
PlacementsBySide ==
  \A g \in DOMAIN games, s \in Sockets :
    \A i \in 1..Len(AcceptedIntents(g, s)) :
      LET intent == AcceptedIntents(g, s)[i]
          game == games[g]
          placed(side) == playDomino(g, s, intent.domino.id, side).games[g]
          after == placed(intent.side)
      IN  IF game.board = <<>>
          THEN /\ placed("left") = placed("right")
               /\ after.boardLeftEnd = intent.domino.left
               /\ after.boardRightEnd = intent.domino.right
          ELSE IF intent.side = "left"
          THEN /\ after.boardLeftEnd = UnusedValue(intent.domino, game.boardLeftEnd)
               /\ after.boardRightEnd = game.boardRightEnd
               /\ Tail(after.board) = game.board
          ELSE /\ after.boardRightEnd = UnusedValue(intent.domino, game.boardRightEnd)
               /\ after.boardLeftEnd = game.boardLeftEnd
               /\ SubSeq(after.board, 1, Len(game.board)) = game.board

\* getNewEnds on every tile, pair of ends and side where the tile matches
\* the end of that side, and the two examples of the claim
NewEndsOnEveryInput ==
  /\ \A n \in 1..DeckSize, leftEnd \in Pips, rightEnd \in Pips, side \in Sides :
       LET tile == generateDominoes[n]
       IN  \A domino \in {tile, flip(tile)} :
             /\ getNewEnds(TRUE, leftEnd, rightEnd, domino, side)
                  = [left |-> domino.left, right |-> domino.right]
             /\ (side = "left" /\ (domino.left = leftEnd \/ domino.right = leftEnd))
                  => getNewEnds(FALSE, leftEnd, rightEnd, domino, side)
                       = [left |-> UnusedValue(domino, leftEnd), right |-> rightEnd]
             /\ (side = "right" /\ (domino.left = rightEnd \/ domino.right = rightEnd))
                  => getNewEnds(FALSE, leftEnd, rightEnd, domino, side)
                       = [left |-> leftEnd, right |-> UnusedValue(domino, rightEnd)]
  /\ getNewEnds(FALSE, 2, 5, [id |-> 26, left |-> 5, right |-> 6], "right")
       = [left |-> 2, right |-> 6]
  /\ \A side \in Sides :
       getNewEnds(TRUE, EmptyEnd, EmptyEnd, [id |-> 18, left |-> 3, right |-> 3], side)
         = [left |-> 3, right |-> 3]

\* C20: after an accepted placement of tile (a,b) on side left of a
\* non-empty board the new left end is the tile value not used to match the
\* old left end and the right end is unchanged; symmetrically for right
\* (ends (2,5), tile (5,6) on right: right end 6, left end 2).  On an empty
\* board the side asked for is ignored and the ends become (tile.left,
\* tile.right), e.g. (3,3) gives 3 and 3.
Orientation ==
  /\ [](NewEndsOnEveryInput /\ PlacementsBySide)
  /\ [][\A g \in DOMAIN games : Placed(g) => OrientedPlacement(g)]_vars

\* a tile lies on the board the other way round than it lay in the deck: it
\* was flipped to match the end it was placed on
FlippedTileOnBoard ==
  \E g \in DOMAIN games :
    \E k \in 1..Len(games[g].board) :
      LET tile == games[g].board[k]
      IN  /\ tile.left # tile.right
          /\ tile.left = generateDominoes[tile.id + 1].right
          /\ tile.right = generateDominoes[tile.id + 1].left

\* the board of a room is a chain and its open ends are the outer values
ChainedBoard(game) ==
  /\ game.board = <<>> <=> game.boardLeftEnd = EmptyEnd
  /\ game.board = <<>> <=> game.boardRightEnd = EmptyEnd
  /\ game.board # <<>> =>
       /\ game.boardLeftEnd = game.board[1].left
       /\ game.boardRightEnd = game.board[Len(game.board)].right
       /\ \A k \in 1..(Len(game.board) - 1) :
            game.board[k].right = game.board[k + 1].left

\* C21: in every reachable state the board is empty iff both open ends are
\* the empty sentinel -1; when it is not empty, boardLeftEnd is the left
\* value of the first board tile, boardRightEnd the right value of the last,
\* and of every two adjacent board tiles the right value of the earlier
\* equals the left value of the later.
BoardChain == \A g \in DOMAIN games : ChainedBoard(games[g])

\* a chain of at least 12 tiles lies on the board, a flipped one among them
LongChainOnBoard ==
  \E g \in DOMAIN games :
    /\ Len(games[g].board) >= 12
    /\ \E k \in 1..Len(games[g].board) :
         games[g].board[k].left > games[g].board[k].right

\* the legal (domino, side) pairs of a seat against the ends of its room
LegalMoves(game, playerIndex) ==
  MoveOptions(getPlayableDominoes(PlayerAt(game, playerIndex).hand,
                                  game.boardLeftEnd, game.boardRightEnd,
                                  Len(game.board) = 0))

\* 0-based index in the hand of the seat of the tile with the id
HandIndex(game, playerIndex, id) ==
  FindIndex([k \in 1..Len(PlayerAt(game, playerIndex).hand) |->
               PlayerAt(game, playerIndex).hand[k].id = id])

\* the room after the move through the playDomino path and through the
\* timer path
HumanPath(game, playerIndex, move) ==
  afterAction(placeDomino(game, playerIndex,
                          HandIndex(game, playerIndex, move.domino.id), move.side))

AIPath(game, playerIndex, move) ==
  afterAction(aiPlaceDomino(game, playerIndex, move.domino, move.side))

\* for the current seat of every round and every legal move of it the two
\* paths leave the same room, which is also what the playDomino handler
\* stores for the seat's identity, and getNewEnds predicts its ends
PathsAgree ==
  \A g \in DOMAIN games :
    games[g].gamePhase = "playing" =>
      LET game == games[g]
          playerIndex == game.currentPlayerIndex
          moves == LegalMoves(game, playerIndex)
      IN  \A i \in 1..Len(moves) :
            LET human == HumanPath(game, playerIndex, moves[i])
                predicted == getNewEnds(Len(game.board) = 0, game.boardLeftEnd,
                                        game.boardRightEnd, moves[i].domino,
                                        moves[i].side)
            IN  /\ AIPath(game, playerIndex, moves[i]) = human
                /\ predicted = [left |-> human.boardLeftEnd,
                                right |-> human.boardRightEnd]
                /\ IndexOfId(game, PlayerAt(game, playerIndex).id) = playerIndex
                     => playDomino(g, PlayerAt(game, playerIndex).id,
                                   moves[i].domino.id, moves[i].side).games[g]
                          = human

\* C22: human and AI placement are the same operation: for every state,
\* tile in the current seat's hand and legal side, the move applied through
\* the AI-timer path leaves exactly the hand, board (flips included), open
\* ends, passCount, phase, winner, scores and turn pointer that the human
\* playDomino path leaves, and the ends getNewEnds predicts are the ends the
\* placement produces; every placement step taken is the human path's
\* result for the acting seat.
PlacementPathsAgree ==
  /\ []PathsAgree
  /\ [][\A g \in DOMAIN games :
          Placed(g) =>
            \E side \in Sides :
              games'[g] = HumanPath(games[g], ActingSeat(g) - 1,
                                    [domino |-> PlacedTile(g), side |-> side])]_vars

\* in a round an AI seat has placed two tiles and a human seat one
BothPathsTaken ==
  \E g \in DOMAIN games :
    /\ games[g].gamePhase = "playing"
    /\ \E i \in 1..Len(games[g].players) :
         /\ games[g].players[i].isAI
         /\ Len(games[g].players[i].hand) <= HandSize - 2
    /\ \E i \in 1..Len(games[g].players) :
         /\ ~games[g].players[i].isAI
         /\ Len(games[g].players[i].hand) < HandSize

\* the pending timers of room g
TimersOf(pending, g) == SelectSeq(pending, LAMBDA timer : timer.game = g)

\* the step is the firing of a pending timer of room g
AIFired(g) ==
  \E k \in 1..Len(timers) :
    /\ timers[k].game = g
    /\ Len(timers') >= Len(timers) - 1
    /\ SubSeq(timers', 1, Len(timers) - 1) = RemoveAt(timers, k - 1)
    /\ \/ Placed(g)
       \/ Passed(g)

\* C23: when an AI move or pass ends the round no further AI turn is
\* scheduled or applied: no AI timer is pending in any state whose phase is
\* finished or waiting, and no timer fires on a room (so no hand, board or
\* score changes through an AI action) until the next start.
AIChainStops ==
  /\ [](\A g \in DOMAIN games :
          games[g].gamePhase \in {"finished", "waiting"}
            => TimersOf(timers, g) = <<>>)
  /\ [][\A g \in DOMAIN games :
          /\ games[g].gamePhase \in {"finished", "waiting"} => ~AIFired(g)
          /\ (AIFired(g) /\ games'[g].gamePhase = "finished")
               => TimersOf(timers', g) = <<>>]_vars

\* an AI seat has ended the round by emptying its hand: the round is
\* finished, the pointer rests on the AI seat and its partner is an AI too
AIEndedRound ==
  \E g \in DOMAIN games :
    LET game == games[g]
    IN  /\ game.gamePhase = "finished"
        /\ Len(game.board) > 0
        /\ PlayerAt(game, game.currentPlayerIndex).isAI
        /\ PlayerAt(game, game.currentPlayerIndex).hand = <<>>
        /\ \E i \in 1..Len(game.players) : ~game.players[i].isAI

\* an AI seat is to move in a round of room g
AIToMove(g) ==
  /\ games[g].gamePhase = "playing"
  /\ PlayerAt(games[g], games[g].currentPlayerIndex).isAI

\* the outcome is a rejection that leaves rooms and timers as they are
Refused(outcome) ==
  /\ outcome.err # "ok"
  /\ outcome.games = games
  /\ outcome.timers = timers

\* while an AI seat is to move every intent on the room is refused
HumansRefused ==
  \A g \in DOMAIN games :
    AIToMove(g) =>
      /\ \A s \in AnySocket :
           /\ Refused(pass(g, s))
           /\ \A id \in TileIds, side \in Sides : Refused(playDomino(g, s, id, side))
           /\ \A team \in Teams : Refused(joinGame(g, s, team))
      /\ \A shuffled \in Shuffles : Refused(startGame(g, shuffled))
      /\ \A team \in TeamChoices : Refused(addAIPlayer(g, team))
      /\ Refused(autoFillAI(g))

\* what the claim lists of a room: hands, board, ends, pointer, passCount,
\* phase and scores
RoundState(game) ==
  <<Hands(game), game.board, game.boardLeftEnd, game.boardRightEnd,
    game.currentPlayerIndex, game.passCount, game.gamePhase, game.scores>>

\* C24: from the step in which an AI seat becomes current until a
\* human-controlled seat becomes current or the round ends, every playTile,
\* pass, start, join, addAI and autoFill intent from any human identity is
\* rejected and leaves hands, board, ends, turn pointer, passCount, phase
\* and scores unchanged; only firings of the AI timer change the game state
\* in that interval.
AIExclusivity ==
  /\ []HumansRefused
  /\ [][\A g \in DOMAIN games :
          (AIToMove(g) /\ RoundState(games'[g]) # RoundState(games[g]))
            => AIFired(g)]_vars

\* an AI seat is to move, its timer pending, while a connected human seat
\* of the round holds a tile playable on the board
HumanWaitsForAI ==
  \E g \in DOMAIN games :
    /\ AIToMove(g)
    /\ Len(games[g].board) > 0
    /\ TimersOf(timers, g) # <<>>
    /\ \E s \in Sockets \ closed :
         /\ HoldsSeat(games[g], s)
         /\ LegalMoves(games[g], SeatOf(games[g], s) - 1) # <<>>
         /\ \E id \in TileIds : playDomino(g, s, id, "left").err = "NotYourTurn"

\* the seat that placed or passed in the step is the current seat of room g
ActingSeatIsCurrent(g) ==
  IF Placed(g) THEN ActingSeat(g) - 1 = games[g].currentPlayerIndex
  ELSE PlayerAt(games[g], games[g].currentPlayerIndex).isAI

\* C25: in every reachable state of a room at most one AI-turn timer is
\* pending, and whenever one is pending the phase is playing and the
\* current seat is exactly the AI seat captured when the timer was
\* scheduled, so a delayed AI move is never applied for a seat that is not
\* current.
OneAITurnInFlight ==
  /\ [](\A g \in DOMAIN games :
          LET pending == TimersOf(timers, g)
          IN  /\ Len(pending) <= 1
              /\ pending # <<>> =>
                   /\ games[g].gamePhase = "playing"
                   /\ PlayerAt(games[g], games[g].currentPlayerIndex).isAI
                   /\ PlayerAt(games[g], games[g].currentPlayerIndex).id
                        = pending[1].player
                   /\ IndexOfId(games[g], pending[1].player)
                        = games[g].currentPlayerIndex)
  /\ [][\A g \in DOMAIN games :
          AIFired(g) => ActingSeatIsCurrent(g)]_vars

\* two AI seats have moved one after the other and a third AI turn is
\* pending, with a human seat offline
AIChainInFlight ==
  \E g \in DOMAIN games :
    /\ TimersOf(timers, g) # <<>>
    /\ Cardinality({i \in 1..Len(games[g].players) :
                      /\ games[g].players[i].isAI
                      /\ Len(games[g].players[i].hand) < HandSize}) >= 2
    /\ \E i \in 1..Len(games[g].players) : ~games[g].players[i].isConnected

AnyOfTwoRooms == TwoRoomCodes \cup {UnknownRoom}

\* the outcome leaves every room other than g as it is, and adds none
OnlyRoom(g, outcome) ==
  /\ DOMAIN outcome.games \subseteq DOMAIN games \cup {g}
  /\ \A h \in DOMAIN games \ {g} :
       /\ h \in DOMAIN outcome.games
       /\ outcome.games[h] = games[h]
  /\ \A h \in DOMAIN games \ {g} :
       TimersOf(outcome.timers, h) = TimersOf(timers, h)

\* a room with the identities of its AI seats, which are drawn at random,
\* left out
WithoutAIIds(game) ==
  [game EXCEPT !.players =
     [i \in 1..Len(game.players) |->
        IF game.players[i].isAI
        THEN [game.players[i] EXCEPT !.id = AIBase]
        ELSE game.players[i]]]

\* What an intent on a room answers and leaves of it, from the room alone:
\* `room` is the addressed room (a fresh one if the code is not in the map)
\* and `exists` tells whether it is in the map.
Answer(err, room) == [err |-> err, room |-> room]

JoinFrom(room, s, team) ==
  IF joinError(room, team) # "ok" THEN Answer(joinError(room, team), room)
  ELSE Answer("ok", [room EXCEPT !.players =
                       reorderPlayers(sortPlayers(Append(room.players,
                                                         humanPlayer(s, team))))])

StartFrom(exists, room, shuffled) ==
  IF ~exists THEN Answer("NotFound", room)
  ELSE IF Len(room.players) # NumSeats THEN Answer("WrongPlayerCount", room)
  ELSE IF room.gamePhase = "playing" THEN Answer("AlreadyStarted", room)
  ELSE Answer("ok", startRound(room, shuffled))

PassFrom(exists, room, s) ==
  IF ~exists THEN Answer("NotFound", room)
  ELSE IF ~IsCurrent(room, s) THEN Answer("NotYourTurn", room)
  ELSE IF LegalMoves(room, room.currentPlayerIndex) # <<>>
  THEN Answer("HasLegalMove", room)
  ELSE Answer("ok", afterAction([room EXCEPT !.passCount = room.passCount + 1]))

PlayFrom(exists, room, s, id, side) ==
  IF ~exists \/ ~IsCurrent(room, s) THEN Answer("refused", room)
  ELSE LET moves == LegalMoves(room, room.currentPlayerIndex)
           asked == {i \in 1..Len(moves) :
                       /\ moves[i].domino.id = id
                       /\ room.board = <<>> \/ moves[i].side = side}
       IN  IF asked = {} THEN Answer("refused", room)
           ELSE Answer("ok", HumanPath(room, room.currentPlayerIndex,
                                       [domino |-> moves[CHOOSE i \in asked : TRUE].domino,
                                        side |-> side]))

AddAIFrom(exists, room, team) ==
  LET kept == connectedOrAI(room.players)
      to == aiTargetTeam(kept, team)
  IN  IF ~exists \/ room.gamePhase # "waiting" \/ Len(kept) >= NumSeats
         \/ to = "none"
      THEN Answer("refused",
                  IF exists /\ room.gamePhase = "waiting"
                  THEN [room EXCEPT !.players = kept] ELSE room)
      ELSE Answer("ok", [room EXCEPT !.players =
                           reorderPlayers(Append(kept, createAIPlayer(AIBase, to)))])

AutoFillFrom(exists, room) ==
  IF ~exists \/ room.gamePhase # "waiting" THEN Answer("refused", room)
  ELSE Answer("ok", [room EXCEPT !.players =
                       reorderPlayers(fillSeats(connectedOrAI(room.players), 1))])

\* the outcome of an intent on room g is the answer computed from room g
\* alone (AI identities apart), and leaves the other rooms as they are
FromRoomAlone(g, outcome, answer) ==
  /\ OnlyRoom(g, outcome)
  /\ (answer.err = "ok") <=> (outcome.err = "ok")
  /\ answer.err # "refused" => outcome.err = answer.err
  /\ g \in DOMAIN outcome.games =>
       WithoutAIIds(outcome.games[g]) = WithoutAIIds(answer.room)

\* the tiles a placement is asked with: those the seat in turn holds, and
\* the lowest tile it does not hold
AskedTiles(room) ==
  LET held == IF room.currentPlayerIndex \in 0..(Len(room.players) - 1)
              THEN {d.id : d \in Range(PlayerAt(room, room.currentPlayerIndex).hand)}
              ELSE {}
      others == TileIds \ held
  IN  held \cup {CHOOSE id \in others : \A other \in others : id <= other}

\* every intent addressed to a room is answered from that room alone and
\* leaves the other rooms as they are; so does every firing of a timer
RoomLocalOutcomes ==
  /\ \A g \in AnyOfTwoRooms :
       LET exists == g \in DOMAIN games
           room == RoomJoined(g)
       IN  /\ \A s \in AnySocket :
                /\ \A team \in Teams :
                     FromRoomAlone(g, joinGame(g, s, team), JoinFrom(room, s, team))
                /\ FromRoomAlone(g, pass(g, s), PassFrom(exists, room, s))
                /\ \A id \in AskedTiles(room), side \in Sides :
                     FromRoomAlone(g, playDomino(g, s, id, side),
                                   PlayFrom(exists, room, s, id, side))
           /\ \A shuffled \in Shuffles :
                FromRoomAlone(g, startGame(g, shuffled),
                              StartFrom(exists, room, shuffled))
           /\ \A team \in TeamChoices :
                FromRoomAlone(g, addAIPlayer(g, team), AddAIFrom(exists, room, team))
           /\ FromRoomAlone(g, autoFillAI(g), AutoFillFrom(exists, room))
  /\ \A k \in 1..Len(timers) :
       LET g == timers[k].game
           seat == IndexOfId(games[g], timers[k].player)
           moves == aiSelectMove(games[g], PlayerAt(games[g], seat))
       IN  /\ moves = LegalMoves(games[g], seat)
              \/ (Len(moves) = 1 /\ moves[1] = LegalMoves(games[g], seat)[1])
           /\ \A i \in 1..Len(moves) :
                /\ OnlyRoom(g, aiTurn(k, <<moves[i]>>))
                /\ aiTurn(k, <<moves[i]>>).games[g] = AIPath(games[g], seat, moves[i])
           /\ moves = <<>> => OnlyRoom(g, aiTurn(k, <<>>))

\* C26: any intent or AI-timer firing addressed to room A (join, start,
\* playTile, pass, addAI, autoFill) leaves every other room B's seats,
\* hands, board, ends, turn pointer, passCount, phase, winner and scores
\* unchanged, and the outcome of an intent on A does not depend on B's
\* state.
RoomIndependence ==
  /\ []RoomLocalOutcomes
  /\ [][/\ Cardinality({g \in DOMAIN games' :
                           g \notin DOMAIN games \/ games'[g] # games[g]}) <= 1
        /\ DOMAIN games \subseteq DOMAIN games']_vars

\* two rooms are being played side by side, a socket seated in both, one
\* waiting for its AI seat and the other for a human seat
TwoRoundsSideBySide ==
  \E g \in DOMAIN games, h \in DOMAIN games :
    /\ g # h
    /\ games[g].gamePhase = "playing" /\ games[h].gamePhase = "playing"
    /\ games[g].board # <<>> /\ games[h].board # <<>>
    /\ TimersOf(timers, g) # <<>>
    /\ TimersOf(timers, h) = <<>>
    /\ \E s \in Sockets : HoldsSeat(games[g], s) /\ HoldsSeat(games[h], s)

(***************************************************************************)
(* Disconnects and reconnects                                              *)
(***************************************************************************)
\* the round of a room is the same in both records: hands, board, ends,
\* pointer, passCount, phase, winner and scores, and the seats' teams
SameRound(before, after) ==
  /\ RoundState(after) = RoundState(before)
  /\ after.winner = before.winner
  /\ Len(after.players) = Len(before.players)
  /\ \A i \in 1..Len(before.players) :
       /\ after.players[i].team = before.players[i].team
       /\ after.players[i].isAI = before.players[i].isAI

\* a disconnect changes nothing but the connectivity flag of a seat bound to
\* the closing connection, and no timer
DisconnectKeepsState ==
  \A s \in AnySocket :
    LET outcome == disconnect(s)
    IN  /\ outcome.timers = timers
        /\ DOMAIN outcome.games = DOMAIN games
        /\ \A g \in DOMAIN games :
             /\ SameRound(games[g], outcome.games[g])
             /\ \A i \in 1..Len(games[g].players) :
                  LET before == games[g].players[i]
                      after == outcome.games[g].players[i]
                  IN  /\ after.id = before.id
                      /\ after.isConnected # before.isConnected =>
                           before.id = s /\ ~after.isConnected

\* a reconnect changes nothing but the identity and the connectivity flag of
\* the one seat it rebinds
ReconnectKeepsState ==
  \A s \in AnySocket, deviceId \in DeviceIds \cup {NoDevice} :
    LET outcome == reconnectGame(s, deviceId)
    IN  /\ DOMAIN outcome.games = DOMAIN games
        /\ outcome.err # "ok" => outcome.games = games
        /\ \A g \in DOMAIN games :
             /\ SameRound(games[g], outcome.games[g])
             /\ Cardinality({i \in 1..Len(games[g].players) :
                               outcome.games[g].players[i] # games[g].players[i]}) <= 1
             /\ \A i \in 1..Len(games[g].players) :
                  LET before == games[g].players[i]
                      after == outcome.games[g].players[i]
                  IN  after # before =>
                        /\ g = deviceSessions[deviceId].gameId
                        /\ before.id = deviceSessions[deviceId].playerId
                        /\ after.id = s /\ after.isConnected

\* the move of a pending AI timer is applied when the timer fires, whoever
\* is connected
PendingMovesApplied ==
  \A k \in 1..Len(timers) :
    LET g == timers[k].game
        seat == IndexOfId(games[g], timers[k].player)
        moves == aiSelectMove(games[g], PlayerAt(games[g], seat))
    IN  /\ seat = games[g].currentPlayerIndex
        /\ \A i \in 1..Len(moves) :
             aiTurn(k, <<moves[i]>>).games[g] = AIPath(games[g], seat, moves[i])

\* after an accepted reconnect the identity lookup of playDomino and pass
\* resolves the new identity, and no longer the old one, to the rebound seat
ReboundSeatAnswers ==
  \A s \in Sockets \ closed, deviceId \in DeviceIds :
    LET outcome == reconnectGame(s, deviceId)
    IN  outcome.err = "ok" =>
          LET session == deviceSessions[deviceId]
              seat == IndexOfId(games[session.gameId], session.playerId)
              room == outcome.games[session.gameId]
          IN  /\ IndexOfId(room, s) = seat
              /\ session.playerId # s => IndexOfId(room, session.playerId) # seat

\* C27: a human disconnect or reconnect at any point of a round, also while
\* an AI timer is pending, leaves hands, board, open ends, turn pointer,
\* passCount, phase, winner and scores unchanged and changes only the seat's
\* bound identity and its connectivity flag; a pending AI move is still
\* applied when its timer fires; and after a reconnect the new identity, and
\* no longer the old one, is accepted for that seat's turn
ConnectionsKeepState ==
  /\ DisconnectKeepsState
  /\ ReconnectKeepsState
  /\ PendingMovesApplied
  /\ ReboundSeatAnswers

(***************************************************************************)
(* The AI decision                                                         *)
(***************************************************************************)
\* the verdict of canPlayDomino on a tile against the ends of a room
Verdict(game, domino) ==
  canPlayDomino(domino, game.boardLeftEnd, game.boardRightEnd,
                Len(game.board) = 0)

\* every move the decision can return for the seat is a tile of the seat's
\* hand with one of the tile's legal sides, and it returns none only when no
\* tile of the hand is playable
DecisionIsLegal(game, player) ==
  LET moves == aiSelectMove(game, player)
      hand == player.hand
  IN  /\ \A i \in 1..Len(moves) :
           /\ \E k \in 1..Len(hand) : hand[k] = moves[i].domino
           /\ Verdict(game, moves[i].domino).canPlay
           /\ moves[i].side \in Range(Verdict(game, moves[i].domino).sides)
      /\ moves = <<>> <=>
           \A k \in 1..Len(hand) : ~Verdict(game, hand[k]).canPlay

\* the firing of timer k with a move of the decision takes exactly that tile
\* out of the acting hand and leaves a chained board one tile longer
AppliedAsChosen(k) ==
  LET g == timers[k].game
      game == games[g]
      seat == IndexOfId(game, timers[k].player)
      hand == PlayerAt(game, seat).hand
      moves == aiSelectMove(game, PlayerAt(game, seat))
  IN  \A i \in 1..Len(moves) :
        LET after == aiTurn(k, <<moves[i]>>).games[g]
            left == PlayerAt(after, seat).hand
        IN  /\ Len(left) = Len(hand) - 1
            /\ Range(left) = Range(hand) \ {moves[i].domino}
            /\ Len(after.board) = Len(game.board) + 1
            /\ ChainedBoard(after)
            /\ \A other \in 0..(Len(game.players) - 1) :
                 other # seat => PlayerAt(after, other).hand = PlayerAt(game, other).hand

\* C28: every (tile, side) the AI decision returns has the tile in the AI
\* seat's hand and the side among canPlayDomino's legal sides for the
\* current ends, and it returns no move only when no hand tile is playable;
\* so the AI placement never removes a tile that is not in the hand and
\* never breaks the board chain
AILegalMoves ==
  /\ \A g \in DOMAIN games :
       \A i \in 1..Len(games[g].players) :
         games[g].players[i].isAI => DecisionIsLegal(games[g], games[g].players[i])
  /\ \A k \in 1..Len(timers) : AppliedAsChosen(k)

\* an AI seat is about to move with a tile that fits one end only, another
\* that fits both, and a tile that fits neither
AIChoosesAmongSides ==
  \E k \in 1..Len(timers) :
    LET game == games[timers[k].game]
        hand == PlayerAt(game, IndexOfId(game, timers[k].player)).hand
    IN  /\ game.board # <<>>
        /\ \E d \in Range(hand) : Len(Verdict(game, d).sides) = 1
        /\ \E d \in Range(hand) : Len(Verdict(game, d).sides) = 2
        /\ \E d \in Range(hand) : ~Verdict(game, d).canPlay

(***************************************************************************)
(* Blockage                                                                *)
(***************************************************************************)
\* the seat j turns behind the pointer
Behind(game, j) == (game.currentPlayerIndex + NumSeats - j) % NumSeats

\* the open ends and the hands of a room
EndsAndHands(game) == <<game.boardLeftEnd, game.boardRightEnd, Hands(game)>>

\* in a round being played the seats that passed since the last placement
\* are the passCount seats behind the pointer, and none of them holds a tile
\* playable on the open ends
PassersBlocked ==
  \A g \in DOMAIN games :
    games[g].gamePhase = "playing" =>
      /\ Len(games[g].players) = NumSeats
      /\ games[g].passCount \in 0..(BlockedPasses - 1)
      /\ \A j \in 1..games[g].passCount :
           ~HasPlayable(games[g], PlayerAt(games[g], Behind(games[g], j)).hand)

\* a pass of a round being played is made by the seat in turn, which holds no
\* playable tile; it leaves the ends and the hands as they are and hands the
\* turn to the next seat unless it ends the round
PassInRotation(g) ==
  games[g].gamePhase = "playing" /\ Passed(g) =>
    LET game == games[g]
        after == games'[g]
    IN  /\ ~HasPlayable(game, PlayerAt(game, game.currentPlayerIndex).hand)
        /\ EndsAndHands(after) = EndsAndHands(game)
        /\ after.currentPlayerIndex =
             IF after.gamePhase = "finished" THEN game.currentPlayerIndex
             ELSE (game.currentPlayerIndex + 1) % NumSeats
        /\ after.gamePhase = "finished" <=> after.passCount = BlockedPasses

\* the pass that ends a round is the fourth in a row, after those of the
\* three seats behind the pointer, and leaves no seat with a playable tile
FourthPass(g) ==
  BlockedEnd(g) =>
    /\ games[g].passCount = BlockedPasses - 1
    /\ {Behind(games[g], j) : j \in 0..(BlockedPasses - 1)} = 0..(NumSeats - 1)
    /\ games'[g].gamePhase = "finished"
    /\ \A seat \in 0..(NumSeats - 1) :
         /\ PlayerAt(games'[g], seat).hand # <<>>
         /\ ~HasPlayable(games'[g], PlayerAt(games'[g], seat).hand)

\* C29: whenever a round that was dealt and played ends because passCount
\* reached 4, the four passes were made by the four distinct seats in
\* rotation against the same open ends, and in the resulting finished state
\* no seat holds a tile playable on either open end
GenuineBlockage ==
  /\ []PassersBlocked
  /\ [][\A g \in DOMAIN games : PassInRotation(g) /\ FourthPass(g)]_vars

\* a round ended by four passes, of human and of AI seats, with tiles left in
\* every hand
BlockedAllRound ==
  \E g \in DOMAIN games :
    LET game == games[g]
    IN  /\ game.gamePhase = "finished"
        /\ game.passCount = BlockedPasses
        /\ game.board # <<>>
        /\ \A i \in 1..Len(game.players) : game.players[i].hand # <<>>
        /\ \E i \in 1..Len(game.players) : game.players[i].isAI
        /\ \E i \in 1..Len(game.players) : ~game.players[i].isAI

(***************************************************************************)
(* The opponent-hand hypothesis                                            *)
(***************************************************************************)
TilesOf(hands) == UNION {Range(hands[k]) : k \in DOMAIN hands}

\* the hypothesis of seat i of a room for one outcome of the shuffle: it ends,
\* holds a hand for each of the two opponent seats, of that seat's size, no
\* tile of the board, of the seat or of its partner, no tile twice, and
\* together the tiles the two opponents hold
HypothesisSound(game, i, shuffled) ==
  LET player == game.players[i]
      result == estimateOpponentHands(game, player, shuffled)
      estimated == result.estimated
      opposing == {k \in 1..Len(game.players) : game.players[k].team # player.team}
      own == {k \in 1..Len(game.players) : game.players[k].team = player.team}
      known == Range(game.board) \cup TilesOf([k \in own |-> game.players[k].hand])
      held == TilesOf([k \in opposing |-> game.players[k].hand])
  IN  /\ result.terminates
      /\ Cardinality(opposing) = 2
      /\ Cardinality(DOMAIN estimated) = 2
      /\ DOMAIN estimated = {game.players[k].id : k \in opposing}
      /\ \A k \in opposing :
           Len(estimated[game.players[k].id]) = Len(game.players[k].hand)
      /\ {d.id : d \in TilesOf(estimated)} \cap {d.id : d \in known} = {}
      /\ \A id \in DOMAIN estimated, other \in DOMAIN estimated :
           \A k \in 1..Len(estimated[id]), j \in 1..Len(estimated[other]) :
             estimated[id][k] = estimated[other][j] => id = other /\ k = j
      /\ TilesOf(estimated) = held

\* C30: for any playing state and AI seat, estimateOpponentHands terminates
\* and produces, for each of the two opponent seats only, a hypothesised hand
\* of exactly that opponent's true hand size; no hypothesised tile is on the
\* board, in the AI's hand or in its partner's hand, none is assigned twice,
\* and the two hypothesised hands together are the tiles the two opponents
\* hold
OpponentHypothesis ==
  \A g \in DOMAIN games :
    games[g].gamePhase = "playing" =>
      \A i \in 1..Len(games[g].players) :
        games[g].players[i].isAI =>
          \A shuffled \in UnknownOrders(unknownTiles(games[g], games[g].players[i])) :
            HypothesisSound(games[g], i, shuffled)

(***************************************************************************)
(* The decision and the experience trail                                   *)
(***************************************************************************)
\* the decision of the AI seat of timer k: with one legal (tile, side) pair
\* it is that pair and nothing is recorded; with two or more it is any of
\* them and the pair of signatures is appended to the trail
DecisionOf(k) ==
  LET game == games[timers[k].game]
      seat == IndexOfId(game, timers[k].player)
      player == PlayerAt(game, seat)
      ai == learningAIs[player.id]
      legal == LegalMoves(game, seat)
      moves == aiSelectMove(game, player)
  IN  /\ Len(legal) >= 1 => Range(moves) = Range(legal)
      /\ \A i \in 1..Len(moves) :
           recordDecision(ai, game, player, moves[i]).experienceBuffer =
             IF Len(legal) = 1 THEN ai.experienceBuffer
             ELSE Append(ai.experienceBuffer,
                         [state |-> getStateKey(game, player),
                          action |-> getMoveKey(moves[i].domino, moves[i].side)])

\* C31: the AI decision plays immediately, without scoring alternatives and
\* without recording the decision, exactly when there is exactly one legal
\* (tile, side) pair; with two or more legal pairs, one tile playable on both
\* sides included, the decision goes through exploration or exploitation
\* and its (state signature, move signature) is appended to the trail
SingleOptionShortcut ==
  \A k \in 1..Len(timers) : DecisionOf(k)

\* the experience trail of a seat
TrailOf(player) == learningAIs[player.id].experienceBuffer

\* the trail of an AI seat is empty when no round is being played and holds
\* at most one entry for each tile the seat has placed in the round played
TrailOfThisRound(game, player) ==
  /\ game.gamePhase # "playing" => TrailOf(player) = <<>>
  /\ game.gamePhase = "playing" =>
       Len(TrailOf(player)) <= HandSize - Len(player.hand)
  /\ Len(TrailOf(player)) <= HandSize

\* C32: for every AI seat the experience trail is empty after the step that
\* ends a round, so at any time it holds only decisions the seat made in the
\* current round and its length is at most the number of those decisions,
\* at most 7, however many rounds the room has played
TrailPerRound ==
  \A g \in DOMAIN games :
    \A i \in 1..Len(games[g].players) :
      games[g].players[i].isAI => TrailOfThisRound(games[g], games[g].players[i])

(***************************************************************************)
(* The learning reward                                                     *)
(***************************************************************************)
\* the points of the round that the step ends: what it adds to the scores
RoundPoints(g) ==
  (games'[g].scores.team1 + games'[g].scores.team2)
    - (games[g].scores.team1 + games[g].scores.team2)

\* the reward the learning hook computes for an AI seat of room g in a step
\* that ends a round is the points of that round, signed by the result
RewardOfRound(g) ==
  games[g].gamePhase = "playing" /\ games'[g].gamePhase = "finished" =>
    \A i \in 1..Len(games'[g].players) :
      LET player == games'[g].players[i]
          result == resultFor(games'[g], player)
      IN  player.isAI =>
            /\ result = "draw" <=> games'[g].winner = "draw"
            /\ result = "win" <=> games'[g].winner = player.team
            /\ finalReward(games'[g], result) =
                 IF result = "win" THEN RoundPoints(g)
                 ELSE IF result = "loss" THEN -RoundPoints(g)
                 ELSE 0

SeatCount(players, p) == Cardinality({i \in 1..Len(players) : players[i] = p})

\* the seats of `after` are those of `before` that are AI seats or connected,
\* each as it was, and `added` new AI seats with empty hands
SeatsKeptAndAdded(before, after, added) ==
  LET kept == connectedOrAI(before)
      new == {i \in 1..Len(after) : after[i] \notin Range(before)}
  IN  /\ \A p \in Range(kept) : SeatCount(after, p) = SeatCount(kept, p)
      /\ Len(after) = Len(kept) + added
      /\ Cardinality(new) = added
      /\ \A i \in new :
           /\ after[i].isAI /\ after[i].hand = <<>>
           /\ \A j \in new : after[j].id = after[i].id => j = i

\* autoFillAI on room g: accepted exactly on a waiting room, which it leaves
\* with four seats, two a team, interleaved, the kept seats and new AI seats
AutoFillAnswer(g) ==
  LET outcome == autoFillAI(g)
  IN  IF g \in DOMAIN games /\ games[g].gamePhase = "waiting"
      THEN LET before == games[g].players
               after == outcome.games[g].players
           IN  /\ outcome.err = "ok"
               /\ Len(after) = NumSeats
               /\ \A team \in Teams : TeamCount(after, team) = TeamCap
               /\ \A i \in 1..NumSeats :
                    after[i].team = IF i % 2 = 1 THEN "team1" ELSE "team2"
               /\ SeatsKeptAndAdded(before, after,
                                    NumSeats - Len(connectedOrAI(before)))
               /\ outcome.games = [games EXCEPT ![g].players = after]
               /\ outcome.timers = timers
      ELSE outcome.err # "ok" /\ outcome.games = games /\ outcome.timers = timers

\* addAIPlayer on room g: accepted only on a waiting room, to which it adds
\* exactly one AI seat, of the team asked for when that team has a free seat
AddAIAnswer(g, team) ==
  LET outcome == addAIPlayer(g, team)
  IN  /\ outcome.timers = timers
      /\ g \notin DOMAIN games \/ games[g].gamePhase # "waiting" =>
           outcome.err # "ok" /\ outcome.games = games
      /\ outcome.err = "ok" =>
           LET before == games[g].players
               after == outcome.games[g].players
               seat == CHOOSE i \in 1..Len(after) : after[i] \notin Range(before)
           IN  /\ SeatsKeptAndAdded(before, after, 1)
               /\ Interleaved(after)
               /\ \A t \in Teams : TeamCount(after, t) <= TeamCap
               /\ team \in Teams /\ TeamCount(connectedOrAI(before), team) < TeamCap
                    => after[seat].team = team
               /\ outcome.games = [games EXCEPT ![g].players = after]

\* C34: an accepted autoFillAI on a waiting room leaves the room with exactly
\* 4 seats, 2 per team, in T1,T2,T1,T2 order, keeps every connected human
\* seat and every AI seat with its team and adds only AI seats; addAIPlayer
\* adds exactly one AI seat per accepted call; both are rejected when the
\* phase is not waiting
AISeatsAdded ==
  \A g \in AnyRoom :
    /\ AutoFillAnswer(g)
    /\ \A team \in TeamChoices : AddAIAnswer(g, team)

\* a waiting room with a connected human, a disconnected human and an AI
\* seat, where both handlers are accepted
MixedLobby ==
  \E g \in DOMAIN games :
    /\ games[g].gamePhase = "waiting"
    /\ \E p \in Range(games[g].players) : ~p.isAI /\ p.isConnected
    /\ \E p \in Range(games[g].players) : ~p.isAI /\ ~p.isConnected
    /\ \E p \in Range(games[g].players) : p.isAI
    /\ autoFillAI(g).err = "ok"
    /\ addAIPlayer(g, "none").err = "ok"

(***************************************************************************)
(* The winner and the phase                                                *)
(***************************************************************************)
\* the winner of a room is set exactly when its phase is finished
WinnerSetIffFinished(game) ==
  /\ game.winner \in Teams \cup {"draw", "null"}
  /\ game.winner # "null" <=> game.gamePhase = "finished"

\* a step that changes the winner of room g sets it where there was none,
\* or clears it as a start deals the next round
WinnerStep(g) ==
  games'[g].winner # games[g].winner =>
    \/ games[g].winner = "null"
    \/ games'[g].winner = "null" /\ Started(g)

\* C35: the winner field is non-null exactly when the phase is finished; it
\* is null in waiting and playing, and a set winner is not changed until the
\* next start clears it
WinnerPhaseCoupling ==
  /\ [](\A g \in DOMAIN games : WinnerSetIffFinished(games[g]))
  /\ [][\A g \in DOMAIN games : g \in DOMAIN games' /\ WinnerStep(g)]_vars

\* a finished room with a set winner in which a pass was accepted after the
\* round had ended
WinnerKeptAfterRound ==
  \E g \in DOMAIN games :
    /\ games[g].gamePhase = "finished"
    /\ games[g].winner \in Teams
    /\ games[g].passCount > BlockedPasses

(***************************************************************************)
(* Termination of a round                                                  *)
(***************************************************************************)
\* the seat at index i of room g has an intent that is accepted: for a human
\* seat a playDomino or a pass sent under the seat's identity, for an AI seat
\* a pending timer whose callback comes to a decision
CanAct(g, i) ==
  LET game == games[g]
      seat == PlayerAt(game, i)
  IN  IF seat.isAI
      THEN \E k \in 1..Len(timers) :
             /\ timers[k].game = g
             /\ timers[k].player = seat.id
             /\ IndexOfId(game, seat.id) = i
             /\ aiSelectMove(game, seat) # <<>> => chooseMoveReturns(game, seat)
      ELSE \/ passError(g, seat.id) = "ok"
           \/ \E k \in 1..Len(seat.hand), side \in Sides :
                 playError(g, seat.id, seat.hand[k].id, side) = "ok"

\* what is left of a round: the tiles not yet placed, then the passes that
\* the present ends still leave before the blockage
RoundMeasure(game) ==
  (DeckSize - Len(game.board)) * BlockedPasses + (BlockedPasses - game.passCount)

\* in a room in play the current seat can act, and the board and the run of
\* passes are within their bounds
RoundCanProceed(g) ==
  games[g].gamePhase = "playing" =>
    /\ CanAct(g, games[g].currentPlayerIndex)
    /\ Len(games[g].board) <= DeckSize
    /\ games[g].passCount < BlockedPasses

\* a placement or a pass in a room in play brings the round nearer its end
RoundAdvances(g) ==
  games[g].gamePhase = "playing" /\ (Placed(g) \/ Passed(g)) =>
    /\ RoundMeasure(games'[g]) < RoundMeasure(games[g])
    /\ RoundMeasure(games'[g]) >= 0

\* C36: in every playing state the current seat has at least one acceptable
\* intent, a round holds at most 28 placements with fewer than 4 passes in
\* a row between them, and every accepted placement or pass brings the round
\* nearer its end, so that a round whose seats go on acting reaches phase
\* finished
RoundTermination ==
  /\ [](\A g \in DOMAIN games : RoundCanProceed(g))
  /\ [][\A g \in DOMAIN games : RoundAdvances(g)]_vars

\* the same for the rooms whose seats carry distinct identities
RoundTerminationDistinctIds ==
  /\ [](\A g \in DOMAIN games : DistinctIds(games[g]) => RoundCanProceed(g))
  /\ [][\A g \in DOMAIN games : RoundAdvances(g)]_vars

(***************************************************************************)
(* The identities of the seats                                             *)
(***************************************************************************)
\* the identity lookup of playDomino and pass, made for the identity of the
\* seat at index i, finds that seat
LookupResolves(game, i) == IndexOfId(game, PlayerAt(game, i).id) = i

\* C37: no two seats of one room carry the same identity, so that for every
\* human seat the identity lookup of playDomino and pass resolves to that
\* seat
SeatIdentitiesUnique ==
  \A g \in DOMAIN games :
    /\ DistinctIds(games[g])
    /\ \A i \in 0..(Len(games[g].players) - 1) :
         ~PlayerAt(games[g], i).isAI => LookupResolves(games[g], i)

(***************************************************************************)
(* Placements and the phase                                                *)
(***************************************************************************)
\* the identities an intent on room g may carry: those of the sockets,
\* seated or not, and those of the seats of the room
IdentitiesOf(g) ==
  AnySocket \cup (IF g \in DOMAIN games
                  THEN {p.id : p \in Range(games[g].players)} ELSE {})

\* every playDomino on room g is rejected, whoever sends it, for every tile
\* and side, and leaves rooms and timers as they are
PlacementsRejected(g) ==
  \A s \in IdentitiesOf(g), dominoId \in TileIds, side \in Sides :
    /\ playError(g, s, dominoId, side) # "ok"
    /\ Refused(playDomino(g, s, dominoId, side))

\* a step that takes a tile from a hand of room g or adds one to its board
\* is made in phase playing, and moves one tile from a hand to the board
TileMoved(g) ==
  \/ Len(games'[g].board) > Len(games[g].board)
  \/ \E i \in 1..Len(games[g].players) :
       /\ i <= Len(games'[g].players)
       /\ Len(games'[g].players[i].hand) < Len(games[g].players[i].hand)

\* C38: a tile is removed from a hand and appended to the board only in a
\* state whose phase is playing; in waiting and finished states every
\* playDomino intent from every identity is rejected
NoPlacementOutsidePlaying ==
  /\ [](\A g \in DOMAIN games :
          games[g].gamePhase # "playing" => PlacementsRejected(g))
  /\ [][\A g \in DOMAIN games :
          g \in DOMAIN games' /\ TileMoved(g) /\ ~Started(g)
            => games[g].gamePhase = "playing" /\ Placed(g)]_vars

\* a finished room whose board holds tiles and whose current seat is a
\* connected human still holding tiles
FinishedWithTilesInHand ==
  \E g \in DOMAIN games :
    LET game == games[g]
        seat == PlayerAt(game, game.currentPlayerIndex)
    IN  /\ game.gamePhase = "finished"
        /\ game.board # <<>>
        /\ ~seat.isAI /\ seat.isConnected /\ seat.hand # <<>>
        /\ PlacementsRejected(g)

(***************************************************************************)
(* Hand sizes during a round                                               *)
(***************************************************************************)
\* the seats of a room whose hand is empty
EmptyHanded(game) == {i \in 1..Len(game.players) : game.players[i].hand = <<>>}

\* in a room in play every seat holds from 1 to 7 tiles, and the tiles on
\* the board and in the four hands are 28
HandsInPlay(game) ==
  game.gamePhase = "playing" =>
    /\ Len(game.players) = NumSeats
    /\ \A i \in 1..NumSeats : Len(game.players[i].hand) \in 1..HandSize
    /\ Len(game.board) + SumSeq(HandSizes(game)) = DeckSize

\* a finished room that followed play has at most one seat with an empty hand
OneHandEmptied(game) ==
  game.gamePhase = "finished" /\ game.board # <<>> =>
    Cardinality(EmptyHanded(game)) <= 1

\* a hand of room g that becomes empty does so in the step that ends the round
EmptiedAtTheEnd(g) ==
  \A i \in 1..Len(games[g].players) :
    /\ i <= Len(games'[g].players)
    /\ games[g].players[i].hand # <<>>
    /\ games'[g].players[i].hand = <<>>
    => RoundEnded(g)

\* C39: in every state whose phase is playing every seat holds at least one
\* tile and at most 7, and the board tiles plus the four hand sizes are 28;
\* a hand becomes empty only in the step that sets the phase to finished,
\* and at most one seat has an empty hand in a finished state that followed
\* play
NoEmptyHandWhilePlaying ==
  /\ [](\A g \in DOMAIN games : HandsInPlay(games[g]) /\ OneHandEmptied(games[g]))
  /\ [][\A g \in DOMAIN games : g \in DOMAIN games' /\ EmptiedAtTheEnd(g)]_vars

\* a round ended by a seat that placed its last tile, the others holding some
LastTilePlaced ==
  \E g \in DOMAIN games :
    /\ games[g].gamePhase = "finished"
    /\ games[g].board # <<>>
    /\ EmptyHanded(games[g]) = {games[g].currentPlayerIndex + 1}
    /\ Len(games[g].board) + SumSeq(HandSizes(games[g])) = DeckSize

====
